---- MODULE Spec2Model ----
(***************************************************************************)
(* A model of the database connectivity core of tabularis:                 *)
(*   - the connection pool manager   (src-tauri/src/pool_manager.rs)       *)
(*   - the per-backend drivers       (src-tauri/src/drivers/*.rs)          *)
(*   - the SSH tunnel manager        (src-tauri/src/ssh_tunnel.rs)         *)
(* Each subsystem has its own specification (SpecPool, SpecDriver,         *)
(* SpecTunnel); the variables of the other subsystems stay at their        *)
(* initial values there.                                                   *)
(***************************************************************************)
EXTENDS Naturals, Sequences, FiniteSets, TLC

(***************************************************************************)
(* Bounds of the model.                                                    *)
(***************************************************************************)
\* concurrent callers (async tasks) of the pool manager and of the drivers
NumCallers == 2
\* successful dials (pools created) in one run of the pool manager
MaxDials == 2

Callers == 1..NumCallers

(***************************************************************************)
(* Option<T>: None is the empty tuple, Some(x) the one-element tuple.      *)
(***************************************************************************)
None == <<>>
Some(x) == <<x>>
unwrap_or(o, d) == IF o = None THEN d ELSE o[1]

(***************************************************************************)
(* VARIABLES                                                               *)
(***************************************************************************)
VARIABLES
    \* ---- pool manager ----
    pools,       \* [backend -> [key -> pool id or NoPool]]: MYSQL_POOLS, POSTGRES_POOLS, SQLITE_POOLS
    dialled,     \* sequence: dialled[i] is the (backend, key, max_connections) pool i was created with
    closed,      \* the pools on which Pool::close has been called
    pc,          \* [caller -> position inside the pool manager call it is running]
    callParams,  \* [caller -> ConnectionParams of the call it is running, NoParams when idle]
    callPool,    \* [caller -> pool it dialled and has not stored yet, or NoPool]
    result,      \* [caller -> what its last finished get_*_pool returned]
    afterClose,  \* [caller -> its running call's lookup missed after a pool of the key had been closed]
    closePc,     \* position of the closing task inside close_all_pools
    storedInClose \* a get_*_pool call stored a pool while the running close_all_pools ran

poolVars ==
    <<pools, dialled, closed, pc, callParams, callPool, result, afterClose,
      closePc, storedInClose>>

VARIABLES
    \* ---- drivers ----
    drvPc,       \* [caller -> position inside the driver operation it is running]
    drvCall,     \* [caller -> the operation it is running or ran last, with its arguments]
    drvResult,   \* [caller -> what its last finished driver operation returned]
    drvDials     \* [backend -> connections the drivers dialled themselves]

driverVars == <<drvPc, drvCall, drvResult, drvDials>>

VARIABLES
    \* ---- SSH tunnel: SshTunnel::new ----
    tPc,          \* position of the thread that runs SshTunnel::new
    ssh_password, \* argument of new: Option<&str>
    ssh_key_file, \* argument of new: Option<&str>
    backend,      \* the constructor new dispatched to: "none", "SystemSsh" or "LibSsh2"
    local_port,   \* the port the probe learnt, NoPort before
    probe,        \* the throwaway listener of the port probe: "unbound", "bound", "released"
    authMethod,   \* the userauth_* call new_libssh2 made: "none", "pubkey", "password", "agent"
    newResult,    \* what new returned: "None", "Ok" or the error
    \* ---- external-process backend ----
    child,        \* the ssh child process: "none", "running", "exited", "killed"
    childExit,    \* Some(exit status and stderr text) of a child that exited, else None
    \* ---- embedded backend ----
    listener,     \* the local listener of new_libssh2: "unbound", "bound", "released"
    running,      \* the shared AtomicBool
    acceptPc,     \* the accept thread: "none", "accepting", "exited"
    connState,    \* [local connection -> where it and its relay thread are]
    sessLock,     \* the relay that holds the session mutex, NoHolder when free
    relayed,      \* [local connection -> chunks its relay forwarded]
    \* ---- stop and the registry ----
    stopCalls,    \* calls of SshTunnel::stop so far
    registry,     \* TUNNELS: the ids that have an entry
    regPc         \* the registry's client: "unregistered", "registered", "signalled", "returned"

tunnelVars ==
    <<tPc, ssh_password, ssh_key_file, backend, local_port, probe, authMethod, newResult,
      child, childExit, listener, running, acceptPc, connState, sessLock, relayed,
      stopCalls, registry, regPc>>

VARIABLES
    \* ---- the cache key as a function of the params ----
    keyIn,        \* the two ConnectionParams compared
    keyOut        \* their cache keys and URLs, None before they are computed

keyVars == <<keyIn, keyOut>>

VARIABLES
    \* ---- one relay thread of the embedded backend, byte by byte ----
    rPc,           \* position of the relay thread in its loop, "none" when there is none
    buf,           \* buf[..n]: what the last read returned
    active,        \* let mut active
    did_work,      \* let mut did_work
    running_inner, \* the shared flag as the relay reads it
    localIn,       \* the bytes the local client sends, in order
    chanIn,        \* the bytes the remote side sends over the channel, in order
    nLocal,        \* how many bytes of localIn local_stream.read has returned
    nChan,         \* how many bytes of chanIn channel.read has returned
    wroteChan,     \* the bytes written to the channel, in order
    wroteLocal     \* the bytes written to the local stream, in order

relayVars ==
    <<rPc, buf, active, did_work, running_inner, localIn, chanIn, nLocal, nChan,
      wroteChan, wroteLocal>>

VARIABLES
    \* ---- the statements delete_record, update_record, insert_record build ----
    sqlIn,        \* the two calls compared
    sqlOut        \* what each of them built, None before they ran

sqlVars == <<sqlIn, sqlOut>>

VARIABLES
    \* ---- what execute_query and get_columns make of the engine's answer ----
    fetched,      \* the operation and what fetch_all gave it
    returned      \* what the operation returned, None before it ran

fetchVars == <<fetched, returned>>

VARIABLES
    \* ---- saved queries: saved_queries.rs ----
    meta,         \* the Vec<SavedQueryMeta> meta.json holds (empty while the file is absent)
    qPc,          \* [caller -> "idle", or "read" once its command has read meta.json]
    qLocal,       \* [caller -> the command it runs with its id, name and meta_list]
    qLog          \* ids issued, ids of the save and delete calls that returned Ok,
                  \* and whether some call returned Err

queryVars == <<meta, qPc, qLocal, qLog>>

vars ==
    <<poolVars, driverVars, tunnelVars, keyVars, relayVars, sqlVars, fetchVars, queryVars>>

\* what the operations of one subsystem leave alone
NotPool ==
    <<driverVars, tunnelVars, keyVars, relayVars, sqlVars, fetchVars, queryVars>>
NotDriver ==
    <<poolVars, tunnelVars, keyVars, relayVars, sqlVars, fetchVars, queryVars>>
NotTunnel ==
    <<poolVars, driverVars, keyVars, relayVars, sqlVars, fetchVars, queryVars>>
NotKey ==
    <<poolVars, driverVars, tunnelVars, relayVars, sqlVars, fetchVars, queryVars>>
NotRelay ==
    <<poolVars, driverVars, tunnelVars, keyVars, sqlVars, fetchVars, queryVars>>
NotSql ==
    <<poolVars, driverVars, tunnelVars, keyVars, relayVars, fetchVars, queryVars>>
NotFetch ==
    <<poolVars, driverVars, tunnelVars, keyVars, relayVars, sqlVars, queryVars>>
NotQueries ==
    <<poolVars, driverVars, tunnelVars, keyVars, relayVars, sqlVars, fetchVars>>

(***************************************************************************)
(* Pool manager: pool_manager.rs                                           *)
(***************************************************************************)
Backends == {"mysql", "postgres", "sqlite"}

\* pools.get(&key) == None / the id no pool has
NoPool == 0

\* The ConnectionParams the callers use: one target per backend.
mysqlParams ==
    [driver |-> "mysql", host |-> Some("db"), port |-> Some(3306), database |-> "app"]
postgresParams ==
    [driver |-> "postgres", host |-> None, port |-> None, database |-> "app"]
sqliteParams ==
    [driver |-> "sqlite", host |-> None, port |-> None, database |-> "app.db"]
PoolParams == {mysqlParams, postgresParams, sqliteParams}

\* A second target of the mysql backend, and the params of the run in which
\* one caller works on several targets of a backend.
mysqlLogsParams ==
    [driver |-> "mysql", host |-> Some("db"), port |-> Some(3306), database |-> "logs"]
TargetParams == PoolParams \cup {mysqlLogsParams}

\* format!("{}:{}:{}:{}", driver, host or "localhost", port or 0, database)
build_connection_key(params) ==
    params.driver \o ":" \o unwrap_or(params.host, "localhost") \o ":"
        \o ToString(unwrap_or(params.port, 0)) \o ":" \o params.database

\* no call is running: the params local is out of scope
NoParams == [driver |-> "", host |-> None, port |-> None, database |-> ""]

Keys == {build_connection_key(p) : p \in TargetParams}

\* .max_connections(10) for mysql and postgres, .max_connections(5) for sqlite
max_connections(b) == IF b = "sqlite" THEN 5 ELSE 10

\* Result<Pool, String> of a get_*_pool call; NoResult while none has returned.
NoResult == [tag |-> "None", pool |-> NoPool]
Err == [tag |-> "Err", pool |-> NoPool]
Ok(p) == [tag |-> "Ok", pool |-> p]

PoolInit ==
    /\ pools = [b \in Backends |-> [k \in Keys |-> NoPool]]
    /\ dialled = <<>>
    /\ closed = {}
    /\ pc = [c \in Callers |-> "idle"]
    /\ callParams = [c \in Callers |-> NoParams]
    /\ callPool = [c \in Callers |-> NoPool]
    /\ result = [c \in Callers |-> NoResult]
    /\ afterClose = [c \in Callers |-> FALSE]
    /\ closePc = "idle"
    /\ storedInClose = FALSE

\* get_*_pool, first block: read-lock lookup. A hit returns the stored pool, a
\* miss releases the lock and goes on to dial. The read section holds no
\* await, and every writer holds the write lock for its whole section, so
\* the section is one step.
LookupPool(b, c, params) ==
    LET key == build_connection_key(params) IN
    /\ pc[c] = "idle"
    /\ IF pools[b][key] # NoPool
       THEN /\ result' = [result EXCEPT ![c] = Ok(pools[b][key])]
            /\ UNCHANGED <<pc, callParams, afterClose>>
       ELSE /\ result' = [result EXCEPT ![c] = NoResult]
            /\ callParams' = [callParams EXCEPT ![c] = params]
            /\ afterClose' = [afterClose EXCEPT ![c] =
                   \E q \in closed : dialled[q].backend = b /\ dialled[q].key = key]
            /\ pc' = [pc EXCEPT ![c] = "dial"]
    /\ UNCHANGED <<pools, dialled, closed, callPool, closePc, storedInClose>>
    /\ UNCHANGED NotPool

\* The call returns: its locals, and what the model remembers of its lookup,
\* go out of scope.
Return(c) ==
    /\ callParams' = [callParams EXCEPT ![c] = NoParams]
    /\ afterClose' = [afterClose EXCEPT ![c] = FALSE]

\* get_*_pool, "Create new pool": connect(&url).await succeeded. No lock is
\* held while dialling.
DialPoolOk(b, c) ==
    /\ pc[c] = "dial"
    /\ callParams[c].driver = b
    /\ Len(dialled) < MaxDials
    /\ dialled' = Append(dialled,
           [backend |-> b, key |-> build_connection_key(callParams[c]),
            max |-> max_connections(b)])
    /\ callPool' = [callPool EXCEPT ![c] = Len(dialled) + 1]
    /\ pc' = [pc EXCEPT ![c] = "store"]
    /\ UNCHANGED <<pools, closed, callParams, result, afterClose, closePc, storedInClose>>
    /\ UNCHANGED NotPool

\* A plausible bug: the failed dial leaves an entry for the key behind.
DialPoolErrPoisons(b, c) ==
    /\ pc[c] = "dial"
    /\ callParams[c].driver = b
    /\ result' = [result EXCEPT ![c] = Err]
    /\ pc' = [pc EXCEPT ![c] = "idle"]
    /\ Return(c)
    /\ pools' = [pools EXCEPT ![b][build_connection_key(callParams[c])] = MaxDials + 1]
    /\ UNCHANGED <<dialled, closed, callPool, closePc, storedInClose>>
    /\ UNCHANGED NotPool

\* get_*_pool, "Create new pool": connect(&url).await failed;
\* .map_err(|e| e.to_string())? returns the error before the store block.
DialPoolErr(b, c) ==
    /\ pc[c] = "dial"
    /\ callParams[c].driver = b
    /\ result' = [result EXCEPT ![c] = Err]
    /\ pc' = [pc EXCEPT ![c] = "idle"]
    /\ Return(c)
    /\ UNCHANGED <<pools, dialled, closed, callPool, closePc, storedInClose>>
    /\ UNCHANGED NotPool

\* get_*_pool, "Store pool": write lock, pools.insert(key, pool.clone()) with
\* no second lookup, then Ok(pool).
StorePool(b, c) ==
    /\ pc[c] = "store"
    /\ callParams[c].driver = b
    /\ pools' = [pools EXCEPT ![b][build_connection_key(callParams[c])] = callPool[c]]
    /\ result' = [result EXCEPT ![c] = Ok(callPool[c])]
    /\ callPool' = [callPool EXCEPT ![c] = NoPool]
    /\ pc' = [pc EXCEPT ![c] = "idle"]
    /\ Return(c)
    /\ storedInClose' = (closePc # "idle")
    /\ UNCHANGED <<dialled, closed, closePc>>
    /\ UNCHANGED NotPool

\* The three get_*_pool functions are the same text up to the map, the URL
\* builder and max_connections; callers pass params of the matching driver.
get_pool(b, c) ==
    \/ \E params \in {p \in PoolParams : p.driver = b} : LookupPool(b, c, params)
    \/ DialPoolOk(b, c)
    \/ DialPoolErr(b, c)
    \/ StorePool(b, c)

get_mysql_pool(c) == get_pool("mysql", c)
get_postgres_pool(c) == get_pool("postgres", c)
get_sqlite_pool(c) == get_pool("sqlite", c)

\* One block of close_all_pools: write lock of one map, drain it, close each
\* drained pool.
DrainPools(b) ==
    /\ pools' = [pools EXCEPT ![b] = [k \in Keys |-> NoPool]]
    /\ closed' = closed \cup {pools[b][k] : k \in {j \in Keys : pools[b][j] # NoPool}}

\* A plausible bug: close_pool drains the whole map of the params' backend.
close_pool_drains_map(params) ==
    /\ closePc = "idle"
    /\ DrainPools(params.driver)
    /\ UNCHANGED <<dialled, pc, callParams, callPool, result, afterClose, closePc, storedInClose>>
    /\ UNCHANGED NotPool

\* A plausible bug: the pool is closed but its entry stays in the map
\* (pools.get instead of pools.remove).
close_pool_keeps_entry(params) ==
    /\ closePc = "idle"
    /\ LET key == build_connection_key(params)
           b == params.driver IN
       /\ pools[b][key] # NoPool
       /\ closed' = closed \cup {pools[b][key]}
    /\ UNCHANGED <<pools, dialled, pc, callParams, callPool, result, afterClose, closePc, storedInClose>>
    /\ UNCHANGED NotPool

\* close_pool: under the write lock of the params' backend map, remove the
\* key's entry and close the removed pool; nothing to do when it is absent
\* or the driver is unknown. The write lock is held until the close is done.
close_pool(params) ==
    /\ closePc = "idle"
    /\ LET key == build_connection_key(params)
           b == params.driver IN
       IF b \in Backends /\ pools[b][key] # NoPool
       THEN /\ pools' = [pools EXCEPT ![b][key] = NoPool]
            /\ closed' = closed \cup {pools[b][key]}
       ELSE UNCHANGED <<pools, closed>>
    /\ UNCHANGED <<dialled, pc, callParams, callPool, result, afterClose, closePc, storedInClose>>
    /\ UNCHANGED NotPool

\* A plausible bug: close_all_pools leaves the sqlite map as it is.
close_all_pools_skips_sqlite ==
    /\ \/ /\ closePc = "idle"
          /\ DrainPools("mysql")
          /\ closePc' = "drain_postgres"
       \/ /\ closePc = "drain_postgres"
          /\ DrainPools("postgres")
          /\ closePc' = "drain_sqlite"
       \/ /\ closePc = "drain_sqlite"
          /\ UNCHANGED <<pools, closed>>
          /\ closePc' = "idle"
    /\ storedInClose' = (closePc' # "idle" /\ storedInClose)
    /\ UNCHANGED <<dialled, pc, callParams, callPool, result, afterClose>>
    /\ UNCHANGED NotPool

\* close_all_pools: the three maps are drained one after the other, each
\* under its own write lock.
close_all_pools ==
    /\ \/ /\ closePc = "idle"
          /\ DrainPools("mysql")
          /\ closePc' = "drain_postgres"
       \/ /\ closePc = "drain_postgres"
          /\ DrainPools("postgres")
          /\ closePc' = "drain_sqlite"
       \/ /\ closePc = "drain_sqlite"
          /\ DrainPools("sqlite")
          /\ closePc' = "idle"
    /\ storedInClose' = (closePc' # "idle" /\ storedInClose)
    /\ UNCHANGED <<dialled, pc, callParams, callPool, result, afterClose>>
    /\ UNCHANGED NotPool

\* The callers run get_*_pool concurrently; close_pool and close_all_pools
\* are run by the task that closes connections (one such call at a time).
PoolNext ==
    \/ \E c \in Callers :
          \/ get_mysql_pool(c)
          \/ get_postgres_pool(c)
          \/ get_sqlite_pool(c)
    \/ \E params \in PoolParams : close_pool(params)
    \/ close_all_pools

\* The caller of the run with several targets per backend
TargetCaller == 1

\* One caller obtains pools for several targets while the closing task runs
\* close_pool and close_all_pools.
TargetNext ==
    \/ \E params \in TargetParams : LookupPool(params.driver, TargetCaller, params)
    \/ \E b \in Backends :
          \/ DialPoolOk(b, TargetCaller)
          \/ DialPoolErr(b, TargetCaller)
          \/ StorePool(b, TargetCaller)
    \/ \E params \in TargetParams : close_pool(params)
    \/ close_all_pools

(***************************************************************************)
(* The cache key and the URL as functions of the params                    *)
(***************************************************************************)
\* The ConnectionParams two calls may come with.
KeyDrivers == {"mysql", "postgres"}
KeyHosts == {None, Some("localhost"), Some("db"), Some("db:1")}
KeyPorts == {None, Some(0), Some(1), Some(2), Some(3306)}
KeyDatabases == {"app", "2:app"}
KeyUsers == {Some("root"), Some("a b")}

KeyParams ==
    [driver : KeyDrivers, host : KeyHosts, port : KeyPorts, database : KeyDatabases,
     username : KeyUsers]

\* urlencoding::encode on the user names above
encode(str) == IF str = "a b" THEN "a%20b" ELSE str

\* params.port.unwrap_or(3306) in build_mysql_url, unwrap_or(5432) in
\* build_postgres_url
default_port(driver) == IF driver = "mysql" THEN 3306 ELSE 5432

\* build_mysql_url / build_postgres_url (the password is left out):
\* format!("mysql://{}:{}@{}:{}/{}", user, pass, host or "localhost",
\*         port or 3306, database)
build_url(params) ==
    params.driver \o "://" \o encode(unwrap_or(params.username, "")) \o "@"
        \o unwrap_or(params.host, "localhost") \o ":"
        \o ToString(unwrap_or(params.port, default_port(params.driver)))
        \o "/" \o params.database

\* Two calls arrive with any two params.
KeyInit ==
    /\ keyIn \in KeyParams \X KeyParams
    /\ keyOut = None

\* No call is compared.
KeyIdle ==
    /\ keyIn = <<NoParams, NoParams>>
    /\ keyOut = None

\* let key = build_connection_key(params); let url = build_mysql_url(params);
\* in each of the two calls
KeyApply ==
    /\ keyOut = None
    /\ keyIn[1] # NoParams
    /\ keyOut' = Some([keys |-> <<build_connection_key(keyIn[1]),
                                   build_connection_key(keyIn[2])>>,
                        urls |-> <<build_url(keyIn[1]), build_url(keyIn[2])>>])
    /\ UNCHANGED keyIn
    /\ UNCHANGED NotKey

KeyNext == KeyApply

(***************************************************************************)
(* Drivers: drivers/mysql.rs and drivers/sqlite.rs                         *)
(***************************************************************************)
\* driver operations reach the database over connections of their own
MaxDriverDials == 3

DriverBackends == {"mysql", "sqlite"}

DriverOps ==
    {"get_tables", "get_columns", "delete_record", "update_record", "insert_record",
     "execute_query"}

\* serde_json::Value: the kinds of value an argument may be
ValueKinds == {"Number", "String", "Bool", "Null", "Array", "Object"}

\* an argument the operation does not have
NoValue == "none"

\* the rows insert_record is called with: data maps column names to values
Columns == {"id", "name"}
InsertKinds == {"Number", "Null", "Array"}
InsertRows == UNION {[S -> InsertKinds] : S \in SUBSET Columns}

\* the arguments an operation may be called with, beside params and names
OpArgs(op) ==
    IF op = "delete_record"
    THEN [pk_val : ValueKinds, new_val : {NoValue}, data : {<<>>}]
    ELSE IF op = "update_record"
    THEN [pk_val : ValueKinds, new_val : {"String", "Null", "Object"}, data : {<<>>}]
    ELSE IF op = "insert_record"
    THEN [pk_val : {NoValue}, new_val : {NoValue}, data : InsertRows]
    ELSE [pk_val : {NoValue}, new_val : {NoValue}, data : {<<>>}]

\* arguments every check of the operation accepts
PlainArgs(op) ==
    IF op = "delete_record"
    THEN [pk_val |-> "Number", new_val |-> NoValue, data |-> <<>>]
    ELSE IF op = "update_record"
    THEN [pk_val |-> "Number", new_val |-> "String", data |-> <<>>]
    ELSE IF op = "insert_record"
    THEN [pk_val |-> NoValue, new_val |-> NoValue, data |-> [col \in {"id"} |-> "Number"]]
    ELSE [pk_val |-> NoValue, new_val |-> NoValue, data |-> <<>>]

\* no driver operation has been called
NoCall == [backend |-> "", op |-> "", pk_val |-> NoValue, new_val |-> NoValue, data |-> <<>>]

\* Result<_, String> of a driver operation; executed: a statement was sent
\* to the database on the way
NoDrvResult == [tag |-> "None", error |-> "", executed |-> FALSE]
DrvErr(msg, sent) == [tag |-> "Err", error |-> msg, executed |-> sent]
DrvOk == [tag |-> "Ok", error |-> "", executed |-> TRUE]

\* e.to_string() of a failed connect, and of a statement the engine refused
ConnectError == "error connecting to the database"
EngineError == "error returned from database"

DriverInit ==
    /\ drvPc = [c \in Callers |-> "idle"]
    /\ drvCall = [c \in Callers |-> NoCall]
    /\ drvResult = [c \in Callers |-> NoDrvResult]
    /\ drvDials = [b \in DriverBackends |-> 0]

\* connections the drivers hold open: one per running operation
DriverConnections(b) ==
    {c \in Callers : drvPc[c] = "connected" /\ drvCall[c].backend = b}

\* First statement of every driver operation:
\*   let mut conn = MySqlConnection::connect(&url).await.map_err(..)?;
\*   let mut conn = SqliteConnection::connect(&url).await.map_err(..)?;
\* The URL is built from the params in place; pool_manager is not called.
\* Nothing of the other arguments has been looked at yet.
DriverConnect(c, b, op, args) ==
    /\ drvPc[c] = "idle"
    /\ drvCall' = [drvCall EXCEPT ![c] =
           [backend |-> b, op |-> op, pk_val |-> args.pk_val, new_val |-> args.new_val,
            data |-> args.data]]
    /\ \/ /\ drvDials["mysql"] + drvDials["sqlite"] < MaxDriverDials
          /\ drvDials' = [drvDials EXCEPT ![b] = @ + 1]
          /\ drvPc' = [drvPc EXCEPT ![c] = "connected"]
          /\ drvResult' = [drvResult EXCEPT ![c] = NoDrvResult]
       \/ /\ drvResult' = [drvResult EXCEPT ![c] = DrvErr(ConnectError, FALSE)]
          /\ UNCHANGED <<drvPc, drvDials>>
    /\ UNCHANGED NotDriver

\* A plausible bug: a Bool primary key is bound like a Number.
check_args_binds_bool(call) ==
    IF call.op = "insert_record"
    THEN IF DOMAIN call.data = {} THEN "No data to insert"
         ELSE IF \E col \in DOMAIN call.data : call.data[col] \in {"Array", "Object"}
              THEN "Unsupported value type" ELSE ""
    ELSE IF call.op = "delete_record"
    THEN IF call.pk_val \in {"Number", "String", "Bool"} THEN "" ELSE "Unsupported PK type"
    ELSE IF call.op = "update_record"
    THEN IF call.new_val \in {"Array", "Object"} THEN "Unsupported Value type"
         ELSE IF call.pk_val \in {"Number", "String", "Bool"} THEN ""
              ELSE "Unsupported PK type"
    ELSE ""

\* The checks an operation makes, after it has connected, before it sends
\* its statement: the error it returns, "" when it goes on.
\*   insert_record: if cols.is_empty() { return Err("No data to insert") };
\*                  a value that is no Number, String, Bool or Null:
\*                  Err("Unsupported value type")
\*   delete_record: match pk_val { Number.., String.., _ => Err("Unsupported PK type") }
\*   update_record: match new_val {.. _ => Err("Unsupported Value type") }, then
\*                  match pk_val {.. _ => Err("Unsupported PK type") }
check_args(call) ==
    IF call.op = "insert_record"
    THEN IF DOMAIN call.data = {} THEN "No data to insert"
         ELSE IF \E col \in DOMAIN call.data : call.data[col] \in {"Array", "Object"}
              THEN "Unsupported value type" ELSE ""
    ELSE IF call.op = "delete_record"
    THEN IF call.pk_val \in {"Number", "String"} THEN "" ELSE "Unsupported PK type"
    ELSE IF call.op = "update_record"
    THEN IF call.new_val \in {"Array", "Object"} THEN "Unsupported Value type"
         ELSE IF call.pk_val \in {"Number", "String"} THEN "" ELSE "Unsupported PK type"
    ELSE ""

\* The rest of a driver operation, on its own connection: the checks of the
\* arguments, then the statement is sent and its result (or the engine's
\* error) is returned; conn is dropped when the function returns.
DriverFinish(c) ==
    /\ drvPc[c] = "connected"
    /\ IF check_args(drvCall[c]) # ""
       THEN drvResult' = [drvResult EXCEPT ![c] = DrvErr(check_args(drvCall[c]), FALSE)]
       ELSE \E r \in {DrvOk, DrvErr(EngineError, TRUE)} :
               drvResult' = [drvResult EXCEPT ![c] = r]
    /\ drvPc' = [drvPc EXCEPT ![c] = "idle"]
    /\ UNCHANGED <<drvCall, drvDials>>
    /\ UNCHANGED NotDriver

\* get_tables, get_columns, delete_record, update_record, insert_record and
\* execute_query of both drivers, called concurrently with plain arguments.
driver_op(c) ==
    \/ \E b \in DriverBackends, op \in DriverOps : DriverConnect(c, b, op, PlainArgs(op))
    \/ DriverFinish(c)

DriverNext == \E c \in Callers : driver_op(c)

\* The caller of the run in which the operations get every kind of argument
ArgsCaller == 1

ArgsNext ==
    \/ \E b \in DriverBackends, op \in DriverOps :
          \E args \in OpArgs(op) : DriverConnect(ArgsCaller, b, op, args)
    \/ DriverFinish(ArgsCaller)

(***************************************************************************)
(* The statements of delete_record, update_record and insert_record:       *)
(* their SQL text and their bound parameters as functions of the arguments *)
(***************************************************************************)
\* serde_json::Value as the drivers match on it. A Number is held the way
\* serde_json holds it: PosInt(u64), NegInt(i64) or Float(f64), with its
\* decimal text; the other kinds leave repr empty.
JsonValue(kind, repr, text) == [kind |-> kind, repr |-> repr, text |-> text]
JsonNull == JsonValue("Null", "", "null")
SqlValues ==
    {JsonNull,
     JsonValue("Bool", "", "true"),
     JsonValue("Number", "PosInt", "7"),
     JsonValue("Number", "PosInt", "18446744073709551615"),
     JsonValue("Number", "Float", "1.5"),
     JsonValue("String", "", "a"),
     JsonValue("Array", "", "[]")}

\* the decimal texts above that exceed i64::MAX = 9223372036854775807
AboveI64Max == {"18446744073709551615"}

\* Number::is_i64: NegInt always, PosInt when v <= i64::MAX
is_i64(n) == n.repr = "NegInt" \/ (n.repr = "PosInt" /\ n.text \notin AboveI64Max)

\* Number::is_f64: Float only
is_f64(n) == n.repr = "Float"

\* Number::as_f64: n as f64; u64::MAX rounds to 2^64
as_f64(n) == IF n.text = "18446744073709551615" THEN "18446744073709551616" ELSE n.text

\* a bound parameter: the Rust type handed to bind / push_bind and its value
Bound(type, text) == [type |-> type, text |-> text]

\* if n.is_i64() { bind(n.as_i64()) } else { bind(n.as_f64()) }
\* (update_record and insert_record of both drivers, delete_record of sqlite)
bind_number(n) ==
    IF is_i64(n) THEN Bound("i64", n.text) ELSE Bound("f64", as_f64(n))

\* delete_record of mysql:
\* if n.is_i64() {..as_i64()} else if n.is_f64() {..as_f64()} else {..n.to_string()}
bind_number_mysql_delete(n) ==
    IF is_i64(n) THEN Bound("i64", n.text)
    ELSE IF is_f64(n) THEN Bound("f64", as_f64(n))
    ELSE Bound("String", n.text)

\* The grave accent the mysql driver quotes identifiers with. A TLA+ string
\* cannot hold that character; the circumflex stands for it.
Backtick == "^"

\* the identifier between grave accents in the mysql driver, between double
\* quotes in the sqlite driver
quote(b, ident) ==
    IF b = "mysql" THEN Backtick \o ident \o Backtick ELSE "\"" \o ident \o "\""

\* what a call built: the error it returned before sending anything, or the
\* SQL text and the parameters bound to its placeholders, in order
SqlErr(msg) == [error |-> msg, sql |-> "", binds |-> <<>>]
Statement(sql, binds) == [error |-> "", sql |-> sql, binds |-> binds]

\* delete_record: format!("DELETE FROM {} WHERE {} = ?", table, pk_col) with
\* the two identifiers quoted,
\* then match pk_val binds it or returns "Unsupported PK type"
delete_record_statement(b, table, pk_col, pk_val) ==
    LET query == "DELETE FROM " \o quote(b, table) \o " WHERE " \o quote(b, pk_col) \o " = ?" IN
    IF pk_val.kind = "Number"
    THEN Statement(query,
             <<IF b = "mysql" THEN bind_number_mysql_delete(pk_val) ELSE bind_number(pk_val)>>)
    ELSE IF pk_val.kind = "String" THEN Statement(query, <<Bound("String", pk_val.text)>>)
    ELSE SqlErr("Unsupported PK type")

\* A plausible bug: a String value is spliced into the text instead of bound.
push_value_splices_text(val) ==
    IF val.kind = "Number" THEN [error |-> "", sql |-> "?", binds |-> <<bind_number(val)>>]
    ELSE IF val.kind = "String"
    THEN [error |-> "", sql |-> "'" \o val.text \o "'", binds |-> <<>>]
    ELSE IF val.kind = "Bool" THEN [error |-> "", sql |-> "?", binds |-> <<Bound("bool", val.text)>>]
    ELSE IF val.kind = "Null" THEN [error |-> "", sql |-> "NULL", binds |-> <<>>]
    ELSE [error |-> "unsupported", sql |-> "", binds |-> <<>>]

\* match new_val / match val of update_record and insert_record:
\* Number => push_bind(i64 or f64), String => push_bind(s), Bool => push_bind(b),
\* Null => push("NULL"), _ => return Err(..)
\* push_bind writes the placeholder "?" for both engines.
push_value(val) ==
    IF val.kind = "Number" THEN [error |-> "", sql |-> "?", binds |-> <<bind_number(val)>>]
    ELSE IF val.kind = "String" THEN [error |-> "", sql |-> "?", binds |-> <<Bound("String", val.text)>>]
    ELSE IF val.kind = "Bool" THEN [error |-> "", sql |-> "?", binds |-> <<Bound("bool", val.text)>>]
    ELSE IF val.kind = "Null" THEN [error |-> "", sql |-> "NULL", binds |-> <<>>]
    ELSE [error |-> "unsupported", sql |-> "", binds |-> <<>>]

\* update_record: "UPDATE t SET c = " + new_val + " WHERE pk = " + pk_val,
\* the identifiers quoted
update_record_statement(b, table, pk_col, pk_val, col_name, new_val) ==
    LET set == push_value(new_val)
        head == "UPDATE " \o quote(b, table) \o " SET " \o quote(b, col_name) \o " = "
        where == " WHERE " \o quote(b, pk_col) \o " = " IN
    IF set.error # "" THEN SqlErr("Unsupported Value type")
    ELSE IF pk_val.kind = "Number"
    THEN Statement(head \o set.sql \o where \o "?", set.binds \o <<bind_number(pk_val)>>)
    ELSE IF pk_val.kind = "String"
    THEN Statement(head \o set.sql \o where \o "?", set.binds \o <<Bound("String", pk_val.text)>>)
    ELSE SqlErr("Unsupported PK type")

\* cols.join(", ") over the columns in the order the HashMap yielded them
RECURSIVE join_cols(_, _)
join_cols(b, order) ==
    IF order = <<>> THEN ""
    ELSE IF Len(order) = 1 THEN quote(b, order[1])
    ELSE quote(b, order[1]) \o ", " \o join_cols(b, Tail(order))

\* for val in vals { match val {..} } on qb.separated(", "): the text and the
\* binds of the values pushed so far, or the error of the first bad value
RECURSIVE push_values(_, _)
push_values(data, order) ==
    IF order = <<>> THEN [error |-> "", sql |-> "", binds |-> <<>>]
    ELSE LET first == push_value(data[order[1]])
             rest == push_values(data, Tail(order)) IN
         IF first.error # "" THEN first
         ELSE IF rest.error # "" THEN rest
         ELSE [error |-> "",
               sql |-> IF Len(order) = 1 THEN first.sql ELSE first.sql \o ", " \o rest.sql,
               binds |-> first.binds \o rest.binds]

\* the sequence backwards
RECURSIVE reversed(_)
reversed(q) == IF q = <<>> THEN <<>> ELSE Append(reversed(Tail(q)), q[1])

\* A plausible bug: the values are collected in a second pass over the
\* mapping, which yields them in another order than the columns.
insert_record_statement_two_passes(b, table, data, order) ==
    LET vals == push_values(data, reversed(order)) IN
    IF order = <<>> THEN SqlErr("No data to insert")
    ELSE IF vals.error # "" THEN SqlErr("Unsupported value type")
    ELSE Statement("INSERT INTO " \o quote(b, table) \o " (" \o join_cols(b, order)
                       \o ") VALUES (" \o vals.sql \o ")",
                   vals.binds)

\* insert_record: for (k, v) in data fills cols and vals in the HashMap's
\* iteration order; "No data to insert" when there are none; then
\* "INSERT INTO t (cols) VALUES (" + vals + ")", the identifiers quoted
insert_record_statement(b, table, data, order) ==
    LET vals == push_values(data, order) IN
    IF order = <<>> THEN SqlErr("No data to insert")
    ELSE IF vals.error # "" THEN SqlErr("Unsupported value type")
    ELSE Statement("INSERT INTO " \o quote(b, table) \o " (" \o join_cols(b, order)
                       \o ") VALUES (" \o vals.sql \o ")",
                   vals.binds)

\* the statement of a call
build_statement(b, call) ==
    IF call.op = "delete_record"
    THEN delete_record_statement(b, call.table, call.pk_col, call.pk_val)
    ELSE IF call.op = "update_record"
    THEN update_record_statement(b, call.table, call.pk_col, call.pk_val,
                                 call.col_name, call.new_val)
    ELSE insert_record_statement(b, call.table, call.data, call.order)

\* The calls compared. A HashMap yields its entries in an order that depends
\* on its hasher's random keys: order is any arrangement of the columns.
SqlTables == {"t", "u"}
SqlPkValues ==
    {v \in SqlValues : v.kind \in {"Number", "String", "Bool"} /\ v.text # "1.5"}
SqlInsertValues == {v \in SqlValues : v.kind \in {"Null", "Number", "String", "Array"}}
SqlOrders(S) == {q \in UNION {[1..n -> S] : n \in 0..2} :
                    /\ Len(q) = Cardinality(S)
                    /\ \A col \in S : \E i \in 1..Len(q) : q[i] = col}
NoSqlArgs == [pk_col |-> "", pk_val |-> JsonNull, col_name |-> "", new_val |-> JsonNull,
              data |-> <<>>, order |-> <<>>]
SqlCalls(op) ==
    IF op = "delete_record"
    THEN {[NoSqlArgs EXCEPT !.pk_col = "id", !.pk_val = pk] : pk \in SqlValues}
    ELSE IF op = "update_record"
    THEN {[NoSqlArgs EXCEPT !.pk_col = "id", !.pk_val = pk, !.col_name = "name", !.new_val = nv] :
             pk \in SqlPkValues, nv \in SqlValues}
    ELSE UNION {{[NoSqlArgs EXCEPT !.data = d, !.order = q] : q \in SqlOrders(S), d \in [S -> SqlInsertValues]} :
                   S \in SUBSET Columns}
NoSqlCall == [op |-> "", table |-> "", args |-> NoSqlArgs]

\* Two calls of one operation of one driver arrive with any arguments.
SqlInit ==
    /\ \E b \in DriverBackends, op \in {"delete_record", "update_record", "insert_record"} :
          \E t1 \in SqlTables, t2 \in SqlTables, a1 \in SqlCalls(op), a2 \in SqlCalls(op) :
             sqlIn = [backend |-> b,
                      calls |-> <<[op |-> op, table |-> t1, args |-> a1],
                                  [op |-> op, table |-> t2, args |-> a2]>>]
    /\ sqlOut = None

\* No call is compared.
SqlIdle ==
    /\ sqlIn = [backend |-> "", calls |-> <<NoSqlCall, NoSqlCall>>]
    /\ sqlOut = None

\* the arguments of a call as build_statement takes them
SqlCall(call) ==
    [op |-> call.op, table |-> call.table, pk_col |-> call.args.pk_col,
     pk_val |-> call.args.pk_val, col_name |-> call.args.col_name,
     new_val |-> call.args.new_val, data |-> call.args.data, order |-> call.args.order]

\* each of the two calls builds its statement
SqlApply ==
    /\ sqlOut = None
    /\ sqlIn.backend # ""
    /\ sqlOut' = Some(<<build_statement(sqlIn.backend, SqlCall(sqlIn.calls[1])),
                        build_statement(sqlIn.backend, SqlCall(sqlIn.calls[2]))>>)
    /\ UNCHANGED sqlIn
    /\ UNCHANGED NotSql

SqlNext == SqlApply

(***************************************************************************)
(* execute_query / map_rows of both drivers and get_columns of the sqlite  *)
(* driver: what they return as a function of what the engine answered     *)
(***************************************************************************)
\* most rows of a result set
MaxRows == 2

\* The types map_rows tries to extract a cell as.
MysqlTypes == {"i64", "i32", "String", "bool", "NaiveDateTime", "NaiveDate", "NaiveTime", "f64"}
SqliteTypes == {"i64", "f64", "String", "bool"}
ExtractTypes(engine) == IF engine = "mysql" THEN MysqlTypes ELSE SqliteTypes

\* A cell of a row: the types row.try_get::<T, _>(i) succeeds for, the text
\* of its value, and whether its value as a double is finite.
Cell(succeeds, text, finite) == [succeeds |-> succeeds, text |-> text, finite |-> finite]
NullCell == Cell({}, "", TRUE)

\* serde_json::Number::from_f64(v).map(Value::Number).unwrap_or(Value::Null):
\* from_f64 is None for NaN and the infinities
from_f64(cell) ==
    IF cell.finite THEN JsonValue("Number", "Float", cell.text) ELSE JsonNull

\* the serde_json::Value map_rows makes of a cell extracted as type t
extracted(t, cell) ==
    IF t \in {"i64", "i32"} THEN JsonValue("Number", "Int", cell.text)
    ELSE IF t = "bool" THEN JsonValue("Bool", "", cell.text)
    ELSE IF t = "f64" THEN from_f64(cell)
    ELSE JsonValue("String", "", cell.text)

\* A plausible bug: the sqlite chain tries text before double.
sqlite_cell_text_first(cell) ==
    IF "i64" \in cell.succeeds THEN extracted("i64", cell)
    ELSE IF "String" \in cell.succeeds THEN extracted("String", cell)
    ELSE IF "f64" \in cell.succeeds THEN extracted("f64", cell)
    ELSE IF "bool" \in cell.succeeds THEN extracted("bool", cell)
    ELSE JsonNull

\* map_rows of mysql.rs, the if let Ok(v) = row.try_get::<T, _>(i) chain
mysql_cell(cell) ==
    IF "i64" \in cell.succeeds THEN extracted("i64", cell)
    ELSE IF "i32" \in cell.succeeds THEN extracted("i32", cell)
    ELSE IF "String" \in cell.succeeds THEN extracted("String", cell)
    ELSE IF "bool" \in cell.succeeds THEN extracted("bool", cell)
    ELSE IF "NaiveDateTime" \in cell.succeeds THEN extracted("NaiveDateTime", cell)
    ELSE IF "NaiveDate" \in cell.succeeds THEN extracted("NaiveDate", cell)
    ELSE IF "NaiveTime" \in cell.succeeds THEN extracted("NaiveTime", cell)
    ELSE IF "f64" \in cell.succeeds THEN extracted("f64", cell)
    ELSE JsonNull

\* map_rows of sqlite.rs, the same chain with its own types
sqlite_cell(cell) ==
    IF "i64" \in cell.succeeds THEN extracted("i64", cell)
    ELSE IF "f64" \in cell.succeeds THEN extracted("f64", cell)
    ELSE IF "String" \in cell.succeeds THEN extracted("String", cell)
    ELSE IF "bool" \in cell.succeeds THEN extracted("bool", cell)
    ELSE JsonNull

\* for (i, _) in row.columns().iter().enumerate() { json_row.push(val) }
map_row(engine, row) ==
    [i \in 1..Len(row.cells) |->
        IF engine = "mysql" THEN mysql_cell(row.cells[i]) ELSE sqlite_cell(row.cells[i])]

\* QueryResult { columns, rows, affected_rows }
QueryResult(columns, rows, affected_rows) ==
    [columns |-> columns, rows |-> rows, affected_rows |-> affected_rows, table_columns |-> <<>>]

\* map_rows: an empty Vec gives three empty fields; otherwise the column
\* names of rows[0] and every row decoded; affected_rows: 0 in both cases
map_rows(engine, rows) ==
    IF rows = <<>> THEN QueryResult(<<>>, <<>>, 0)
    ELSE QueryResult(rows[1].columns, [r \in 1..Len(rows) |-> map_row(engine, rows[r])], 0)

\* The data type of a column as the characters of its declaration.
TypeTexts ==
    {<<"I", "N", "T", "E", "G", "E", "R">>, <<"i", "n", "t">>, <<"T", "E", "X", "T">>,
     <<"R", "E", "A", "L">>, <<"P", "o", "i", "n", "t">>, <<>>}

\* char::to_uppercase on the letters above
upper(ch) ==
    IF ch = "i" THEN "I" ELSE IF ch = "n" THEN "N" ELSE IF ch = "t" THEN "T"
    ELSE IF ch = "o" THEN "O" ELSE ch

\* str::to_uppercase
to_uppercase(str) == [i \in 1..Len(str) |-> upper(str[i])]

\* str::contains
contains(str, pat) ==
    \E k \in 0..(Len(str) - Len(pat)) : \A j \in 1..Len(pat) : str[k + j] = pat[j]

\* TableColumn { name, data_type, is_pk, is_nullable, is_auto_increment }
\* of get_columns in sqlite.rs, from one row of PRAGMA table_info
table_column(r) ==
    [name |-> r.name,
     data_type |-> r.type,
     is_pk |-> r.pk > 0,
     is_nullable |-> r.notnull = 0,
     is_auto_increment |-> r.pk > 0 /\ contains(to_uppercase(r.type), <<"I", "N", "T">>)]

\* The rows PRAGMA table_info gives for a declared table: notnull is 1 for a
\* column declared NOT NULL and 0 otherwise, also for a PRIMARY KEY column;
\* pk is the 1-based position of the column in the primary key, 0 outside it.
table_info(decl) ==
    [i \in 1..Len(decl) |->
        [name |-> decl[i].name,
         type |-> decl[i].type,
         notnull |-> IF decl[i].not_null THEN 1 ELSE 0,
         pk |-> IF decl[i].primary_key
                THEN Cardinality({j \in 1..i : decl[j].primary_key}) ELSE 0]]

\* a row the engine returned: its column names and its cells
EngineRow(columns, cells) == [columns |-> columns, cells |-> cells]

\* what fetch_all gave an operation: rows for a query, the rows of PRAGMA
\* table_info for get_columns; columns are the names the engine reported for
\* the result set, affected the row count it reported for the statement
Fetch(engine, op, columns, rows, affected, info) ==
    [engine |-> engine, op |-> op, columns |-> columns, rows |-> rows,
     affected |-> affected, info |-> info]
NoFetch == Fetch("", "", <<>>, <<>>, 0, <<>>)

\* The result sets of a SELECT: the columns in the order the engine reports
\* them, in every cell a value of the column's type or NULL.
ResultColumns == {<<"id", "name", "price", "note">>, <<"name", "id">>}
ValueCell(engine, col) ==
    IF col = "id" THEN Cell(IF engine = "mysql" THEN {"i64", "i32"} ELSE {"i64", "bool"}, "7", TRUE)
    ELSE IF col = "price" THEN Cell({"f64"}, "1.5", TRUE)
    ELSE Cell({"String"}, "a", TRUE)
ResultRows(engine, columns) ==
    {EngineRow(columns, [i \in 1..Len(columns) |->
                            IF i \in nulls THEN NullCell ELSE ValueCell(engine, columns[i])]) :
        nulls \in SUBSET (1..Len(columns))}
ResultSets(engine, columns) ==
    UNION {[1..n -> ResultRows(engine, columns)] : n \in 0..MaxRows}
SelectFetches ==
    UNION {{Fetch(engine, "execute_query", columns, rows, 0, <<>>) :
               rows \in ResultSets(engine, columns)} :
           engine \in DriverBackends, columns \in ResultColumns}

\* A result set of one cell, for which any of the extractions may succeed.
CellFetches ==
    UNION {{Fetch(engine, "execute_query", <<"c">>,
                   <<EngineRow(<<"c">>, <<Cell(succeeds, "1", finite)>>)>>, 0, <<>>) :
               succeeds \in SUBSET ExtractTypes(engine), finite \in BOOLEAN} :
           engine \in DriverBackends}

\* A mutating statement: no rows, and the number of rows it changed.
AffectedCounts == {0, 1, 3}
MutatingFetches ==
    {Fetch(engine, "execute_query", <<>>, <<>>, n, <<>>) :
        engine \in DriverBackends, n \in AffectedCounts}

\* The tables get_columns is called on: one or two declared columns.
Declared(name) ==
    [name : {name}, type : TypeTexts, not_null : BOOLEAN, primary_key : BOOLEAN]
DeclaredTables ==
    {<<c>> : c \in Declared("id")}
        \cup {<<c, d>> : c \in Declared("id"), d \in Declared("name")}
ColumnFetches ==
    {Fetch("sqlite", "get_columns", <<"cid", "name", "type", "notnull", "dflt_value", "pk">>,
           <<>>, 0, table_info(decl)) : decl \in DeclaredTables}

\* An operation has got its rows from the engine.
FetchInit ==
    /\ fetched \in SelectFetches \cup CellFetches \cup MutatingFetches \cup ColumnFetches
    /\ returned = None

\* No operation is waiting for its result.
FetchIdle ==
    /\ fetched = NoFetch
    /\ returned = None

\* execute_query: let rows = ..fetch_all(&mut conn)..?; map_rows(rows)
execute_query ==
    /\ returned = None
    /\ fetched.op = "execute_query"
    /\ returned' = Some(map_rows(fetched.engine, fetched.rows))
    /\ UNCHANGED fetched
    /\ UNCHANGED NotFetch

\* get_columns of sqlite.rs: Ok(rows.iter().map(|r| TableColumn {..}).collect())
get_columns ==
    /\ returned = None
    /\ fetched.op = "get_columns"
    /\ returned' = Some([columns |-> <<>>, rows |-> <<>>, affected_rows |-> 0,
                         table_columns |->
                             [i \in 1..Len(fetched.info) |-> table_column(fetched.info[i])]])
    /\ UNCHANGED fetched
    /\ UNCHANGED NotFetch

FetchNext == execute_query \/ get_columns

(***************************************************************************)
(* Saved queries: saved_queries.rs. The commands are async Tauri commands  *)
(* and run concurrently; each reads meta.json, changes its copy of the    *)
(* list and writes the whole list back, with no lock. File operations are *)
(* taken to succeed: the only error is "Query not found".                 *)
(***************************************************************************)
\* most queries saved in one run
MaxQueries == 2

\* Uuid::new_v4(): the n-th id issued is n
QueryIds == 1..MaxQueries

\* SavedQueryMeta { id, name, .. }
SavedQueryMeta(id, name) == [id |-> id, name |-> name]

\* no command is running
NoCommand == [op |-> "", id |-> 0, name |-> "", meta_list |-> <<>>]

QueriesInit ==
    /\ meta = <<>>
    /\ qPc = [c \in Callers |-> "idle"]
    /\ qLocal = [c \in Callers |-> NoCommand]
    /\ qLog = [issued |-> 0, saved |-> {}, deleted |-> {}, failed |-> FALSE]

\* meta_list.iter().position(|m| m.id == id): 0 stands for None
position(meta_list, id) ==
    IF \E i \in 1..Len(meta_list) : meta_list[i].id = id
    THEN CHOOSE i \in 1..Len(meta_list) :
             meta_list[i].id = id /\ \A j \in 1..(i - 1) : meta_list[j].id # id
    ELSE 0

\* meta_list.remove(idx)
remove(meta_list, idx) ==
    [i \in 1..(Len(meta_list) - 1) |-> IF i < idx THEN meta_list[i] ELSE meta_list[i + 1]]

\* the command returns: its locals go out of scope
QueryReturn(c) ==
    /\ qPc' = [qPc EXCEPT ![c] = "idle"]
    /\ qLocal' = [qLocal EXCEPT ![c] = NoCommand]

\* save_query, up to the SQL file: let mut meta_list = read_meta(&app)?;
\* let id = Uuid::new_v4(); fs::write(file_path, &sql)
SaveRead(c) ==
    /\ qPc[c] = "idle"
    /\ qLog.issued < MaxQueries
    /\ qLocal' = [qLocal EXCEPT ![c] =
           [op |-> "save_query", id |-> qLog.issued + 1, name |-> "new", meta_list |-> meta]]
    /\ qLog' = [qLog EXCEPT !.issued = @ + 1]
    /\ qPc' = [qPc EXCEPT ![c] = "read"]
    /\ UNCHANGED meta
    /\ UNCHANGED NotQueries

\* save_query, the rest: meta_list.push(new_meta); write_meta(&app, &meta_list)?;
\* Ok(SavedQuery {..})
SaveWrite(c) ==
    /\ qPc[c] = "read"
    /\ qLocal[c].op = "save_query"
    /\ meta' = Append(qLocal[c].meta_list, SavedQueryMeta(qLocal[c].id, qLocal[c].name))
    /\ qLog' = [qLog EXCEPT !.saved = @ \cup {qLocal[c].id}]
    /\ QueryReturn(c)
    /\ UNCHANGED NotQueries

save_query(c) == SaveRead(c) \/ SaveWrite(c)

\* update_saved_query and delete_saved_query, first part:
\* let mut meta_list = read_meta(&app)?;
\* let idx = meta_list.iter().position(|m| m.id == id).ok_or("Query not found")?;
FindQuery(c, op, id) ==
    /\ qPc[c] = "idle"
    /\ IF position(meta, id) = 0
       THEN /\ qLog' = [qLog EXCEPT !.failed = TRUE]
            /\ UNCHANGED <<qPc, qLocal>>
       ELSE /\ qLocal' = [qLocal EXCEPT ![c] =
                   [op |-> op, id |-> id, name |-> "renamed", meta_list |-> meta]]
            /\ qPc' = [qPc EXCEPT ![c] = "read"]
            /\ UNCHANGED qLog
    /\ UNCHANGED meta
    /\ UNCHANGED NotQueries

\* update_saved_query, the rest: meta_list[idx].name = name;
\* write_meta(&app, &meta_list)?; the SQL file is rewritten; Ok(..)
UpdateWrite(c) ==
    /\ qPc[c] = "read"
    /\ qLocal[c].op = "update_saved_query"
    /\ meta' = [qLocal[c].meta_list EXCEPT
                   ![position(qLocal[c].meta_list, qLocal[c].id)].name = qLocal[c].name]
    /\ QueryReturn(c)
    /\ UNCHANGED qLog
    /\ UNCHANGED NotQueries

update_saved_query(c) ==
    \/ \E id \in QueryIds : FindQuery(c, "update_saved_query", id)
    \/ UpdateWrite(c)

\* delete_saved_query, the rest: let meta = meta_list.remove(idx);
\* write_meta(&app, &meta_list)?; the SQL file is removed; Ok(())
DeleteWrite(c) ==
    /\ qPc[c] = "read"
    /\ qLocal[c].op = "delete_saved_query"
    /\ meta' = remove(qLocal[c].meta_list, position(qLocal[c].meta_list, qLocal[c].id))
    /\ qLog' = [qLog EXCEPT !.deleted = @ \cup {qLocal[c].id}]
    /\ QueryReturn(c)
    /\ UNCHANGED NotQueries

delete_saved_query(c) ==
    \/ \E id \in QueryIds : FindQuery(c, "delete_saved_query", id)
    \/ DeleteWrite(c)

QueriesNext ==
    \E c \in Callers : save_query(c) \/ update_saved_query(c) \/ delete_saved_query(c)

(***************************************************************************)
(* SSH tunnel: ssh_tunnel.rs                                               *)
(***************************************************************************)
\* local connections made to the tunnel's port in one run
MaxConns == 2
\* calls of SshTunnel::stop in one run
MaxStops == 2

Conns == 1..MaxConns

\* the arguments of SshTunnel::new that decide what it does
Passwords == {None, Some("secret")}
KeyFiles == {None, Some(""), Some("id_rsa")}

\* the port the OS hands to bind("127.0.0.1:0")
EphemeralPorts == {49152, 65535}
NoPort == 0

\* nobody holds the session mutex
NoHolder == 0

\* the one tunnel id the registry is asked about
TunnelIds == {"t1"}

\* key.trim().is_empty()
is_blank(s) == s = ""

TunnelInit ==
    /\ tPc = "start"
    /\ ssh_password = None
    /\ ssh_key_file = None
    /\ backend = "none"
    /\ local_port = NoPort
    /\ probe = "unbound"
    /\ authMethod = "none"
    /\ newResult = "None"
    /\ child = "none"
    /\ childExit = None
    /\ listener = "unbound"
    /\ running = FALSE
    /\ acceptPc = "none"
    /\ connState = [r \in Conns |-> "none"]
    /\ sessLock = NoHolder
    /\ relayed = [r \in Conns |-> 0]
    /\ stopCalls = 0
    /\ registry = {}
    /\ regPc = "unregistered"

\* A plausible bug: the selection is the other way round.
use_system_ssh_with_password(password) == password # None

\* let use_system_ssh = ssh_password.is_none();
use_system_ssh(password) == password = None

\* A plausible bug: the listener outlives the failed constructor.
FailLeaksListener(msg) ==
    /\ tPc' = "failed"
    /\ newResult' = msg
    /\ UNCHANGED <<listener, connState>>

\* new returns Err(msg): every local of the constructor is dropped, a bound
\* listener of new_libssh2 with them (and what was queued on it).
Fail(msg) ==
    /\ tPc' = "failed"
    /\ newResult' = msg
    /\ listener' = IF listener = "bound" THEN "released" ELSE listener
    /\ connState' = [r \in Conns |->
           IF connState[r] = "pending" THEN "closed" ELSE connState[r]]

\* SshTunnel::new, the port probe: TcpListener::bind("127.0.0.1:0") and
\* local_addr().port().
NewProbe ==
    /\ tPc = "start"
    /\ \E pw \in Passwords, key \in KeyFiles :
         /\ ssh_password' = pw
         /\ ssh_key_file' = key
    /\ \/ /\ \E port \in EphemeralPorts : local_port' = port
          /\ probe' = "bound"
          /\ tPc' = "probed"
          /\ UNCHANGED <<newResult, listener, connState>>
       \/ /\ Fail("Failed to find free local port")
          /\ UNCHANGED <<local_port, probe>>
    /\ UNCHANGED <<backend, authMethod, child, childExit, running, acceptPc, sessLock,
                   relayed, stopCalls, registry, regPc>>
    /\ UNCHANGED NotTunnel

\* A plausible bug: the probe's listener lives on while the backend starts.
NewDispatchKeepsProbe ==
    /\ tPc = "probed"
    /\ IF use_system_ssh(ssh_password)
       THEN backend' = "SystemSsh" /\ tPc' = "system_spawn"
       ELSE backend' = "LibSsh2" /\ tPc' = "libssh2_bind"
    /\ UNCHANGED <<ssh_password, ssh_key_file, local_port, probe, authMethod, newResult,
                   child, childExit, listener, running, acceptPc, connState, sessLock, relayed,
                   stopCalls, registry, regPc>>
    /\ UNCHANGED NotTunnel

\* SshTunnel::new: the probe's listener is dropped at the end of its block,
\* then new dispatches on use_system_ssh.
NewDispatch ==
    /\ tPc = "probed"
    /\ probe' = "released"
    /\ IF use_system_ssh(ssh_password)
       THEN backend' = "SystemSsh" /\ tPc' = "system_spawn"
       ELSE backend' = "LibSsh2" /\ tPc' = "libssh2_bind"
    /\ UNCHANGED <<ssh_password, ssh_key_file, local_port, authMethod, newResult, child, childExit,
                   listener, running, acceptPc, connState, sessLock, relayed, stopCalls,
                   registry, regPc>>
    /\ UNCHANGED NotTunnel

\* new_system_ssh: Command::new("ssh")...spawn()
SystemSpawn ==
    /\ tPc = "system_spawn"
    /\ \/ /\ child' = "running"
          /\ tPc' = "system_sleep"
          /\ UNCHANGED <<newResult, listener, connState>>
       \/ /\ Fail("Failed to launch system ssh")
          /\ UNCHANGED child
    /\ UNCHANGED <<ssh_password, ssh_key_file, backend, local_port, probe, authMethod,
                   childExit, running, acceptPc, sessLock, relayed, stopCalls, registry,
                   regPc>>
    /\ UNCHANGED NotTunnel

\* what an ssh child that ends on its own leaves behind
ExitStatuses == {1, 255}
StderrTexts == {"", "Permission denied (publickey)."}

\* format!("SSH tunnel process exited early with status: {}. Error: {}",
\*         status, err_msg); an ExitStatus is displayed as "exit status: N"
exited_early(exit) ==
    "SSH tunnel process exited early with status: exit status: "
        \o ToString(exit.status) \o ". Error: " \o exit.stderr

\* A plausible bug: the child is not probed after the delay.
SystemProbeSkipped ==
    /\ tPc = "system_sleep"
    /\ tPc' = "created"
    /\ newResult' = "Ok"
    /\ UNCHANGED <<listener, connState>>
    /\ UNCHANGED <<ssh_password, ssh_key_file, backend, local_port, probe, authMethod,
                   child, childExit, running, acceptPc, sessLock, relayed, stopCalls,
                   registry, regPc>>
    /\ UNCHANGED NotTunnel

\* new_system_ssh after thread::sleep(500 ms): try_wait. Ok(Some(status))
\* means the child has exited: its stderr is read and Err is returned;
\* otherwise (Ok(None): the child runs) Ok(tunnel) is returned. try_wait
\* reports the state the child is in (the code takes a failed try_wait for
\* a running child; no other code waits for the child, so it does not fail).
SystemProbe ==
    /\ tPc = "system_sleep"
    /\ IF child = "exited"
       THEN Fail(exited_early(childExit[1]))
       ELSE /\ tPc' = "created"
            /\ newResult' = "Ok"
            /\ UNCHANGED <<listener, connState>>
    /\ UNCHANGED <<ssh_password, ssh_key_file, backend, local_port, probe, authMethod,
                   child, childExit, running, acceptPc, sessLock, relayed, stopCalls, registry,
                   regPc>>
    /\ UNCHANGED NotTunnel

\* The ssh child process ends on its own (bad host, refused key, network).
ChildExits ==
    /\ child = "running"
    /\ child' = "exited"
    /\ \E st \in ExitStatuses, txt \in StderrTexts :
          childExit' = Some([status |-> st, stderr |-> txt])
    /\ UNCHANGED <<tPc, ssh_password, ssh_key_file, backend, local_port, probe, authMethod,
                   newResult, listener, running, acceptPc, connState, sessLock, relayed,
                   stopCalls, registry, regPc>>
    /\ UNCHANGED NotTunnel

\* new_libssh2: TcpListener::bind(127.0.0.1:local_port), the first statement.
Libssh2Bind ==
    /\ tPc = "libssh2_bind"
    /\ \/ /\ listener' = "bound"
          /\ tPc' = "libssh2_connect"
          /\ UNCHANGED <<newResult, connState>>
       \/ Fail("Failed to bind local port")
    /\ UNCHANGED <<ssh_password, ssh_key_file, backend, local_port, probe, authMethod,
                   child, childExit, running, acceptPc, sessLock, relayed, stopCalls, registry,
                   regPc>>
    /\ UNCHANGED NotTunnel

\* new_libssh2: TcpStream::connect to the SSH server, then the handshake.
Libssh2Connect ==
    /\ tPc = "libssh2_connect"
    /\ \/ /\ tPc' = "libssh2_auth"
          /\ UNCHANGED <<newResult, listener, connState>>
       \/ Fail("Failed to connect to SSH server")
       \/ Fail("SSH handshake failed")
    /\ UNCHANGED <<ssh_password, ssh_key_file, backend, local_port, probe, authMethod,
                   child, childExit, running, acceptPc, sessLock, relayed, stopCalls, registry,
                   regPc>>
    /\ UNCHANGED NotTunnel

\* A plausible bug: the password is tried before the key file.
auth_method_password_first(key, password) ==
    IF password # None THEN "password"
    ELSE IF key # None /\ ~is_blank(key[1]) THEN "pubkey" ELSE "agent"

\* new_libssh2: which userauth_* call is made for the given key file and
\* password; "nocreds" is the Err("No SSH credentials provided") branch.
auth_method(key, password) ==
    IF key # None
    THEN IF ~is_blank(key[1]) THEN "pubkey"
         ELSE IF password # None THEN "password" ELSE "nocreds"
    ELSE IF password # None THEN "password" ELSE "agent"

\* new_libssh2: the error of a failed userauth_* call
auth_error(m) ==
    IF m = "pubkey" THEN "SSH key auth failed"
    ELSE IF m = "password" THEN "SSH password auth failed"
    ELSE "SSH agent auth failed"

\* new_libssh2: authentication, the authenticated() check, then the accept
\* thread is spawned with the listener and Ok(tunnel) is returned.
Libssh2Auth ==
    /\ tPc = "libssh2_auth"
    /\ LET m == auth_method(ssh_key_file, ssh_password) IN
       IF m = "nocreds"
       THEN /\ Fail("No SSH credentials provided")
            /\ UNCHANGED <<authMethod, running, acceptPc>>
       ELSE /\ authMethod' = m
            /\ \/ /\ tPc' = "created"
                  /\ newResult' = "Ok"
                  /\ running' = TRUE
                  /\ acceptPc' = "accepting"
                  /\ UNCHANGED <<listener, connState>>
               \/ /\ \E msg \in {auth_error(m), "SSH authentication failed"} : Fail(msg)
                  /\ UNCHANGED <<running, acceptPc>>
    /\ UNCHANGED <<ssh_password, ssh_key_file, backend, local_port, probe, child, childExit,
                   sessLock, relayed, stopCalls, registry, regPc>>
    /\ UNCHANGED NotTunnel

\* the connection the next client connect gets, and the next one accept returns
NextConn == IF \E r \in Conns : connState[r] = "none"
            THEN CHOOSE r \in Conns : connState[r] = "none" /\ \A q \in Conns : q < r => connState[q] # "none"
            ELSE NoHolder
NextPending == IF \E r \in Conns : connState[r] = "pending"
               THEN CHOOSE r \in Conns : connState[r] = "pending" /\ \A q \in Conns : q < r => connState[q] # "pending"
               ELSE NoHolder

\* A client connects to 127.0.0.1:local_port. While the listener is bound
\* the kernel completes the connection and queues it for accept; once the
\* listener is released the connection is refused.
ClientConnect ==
    /\ backend = "LibSsh2"
    /\ listener # "unbound"
    /\ NextConn # NoHolder
    /\ connState' = [connState EXCEPT ![NextConn] =
                        IF listener = "bound" THEN "pending" ELSE "refused"]
    /\ UNCHANGED <<tPc, ssh_password, ssh_key_file, backend, local_port, probe, authMethod,
                   newResult, child, childExit, listener, running, acceptPc, sessLock, relayed,
                   stopCalls, registry, regPc>>
    /\ UNCHANGED NotTunnel

\* A plausible bug: the accept thread does not look at the flag.
AcceptLoopIgnoresFlag ==
    /\ acceptPc = "accepting"
    /\ NextPending # NoHolder
    /\ connState' = [connState EXCEPT ![NextPending] = "spawned"]
    /\ UNCHANGED <<acceptPc, listener>>
    /\ UNCHANGED <<tPc, ssh_password, ssh_key_file, backend, local_port, probe, authMethod,
                   newResult, child, childExit, running, sessLock, relayed, stopCalls, registry,
                   regPc>>
    /\ UNCHANGED NotTunnel

\* The accept thread: listener.incoming() returns the next queued connection
\* (it blocks while there is none). The flag is read only then: when it is
\* false the loop breaks, which drops the stream and the listener (what is
\* still queued goes with it); otherwise a relay thread is spawned.
AcceptLoop ==
    /\ acceptPc = "accepting"
    /\ NextPending # NoHolder
    /\ IF ~running
       THEN /\ acceptPc' = "exited"
            /\ listener' = "released"
            /\ connState' = [r \in Conns |->
                   IF connState[r] = "pending" THEN "closed" ELSE connState[r]]
       ELSE /\ connState' = [connState EXCEPT ![NextPending] = "spawned"]
            /\ UNCHANGED <<acceptPc, listener>>
    /\ UNCHANGED <<tPc, ssh_password, ssh_key_file, backend, local_port, probe, authMethod,
                   newResult, child, childExit, running, sessLock, relayed, stopCalls, registry,
                   regPc>>
    /\ UNCHANGED NotTunnel

\* The relay thread returns: its MutexGuard, channel and stream are dropped.
RelayEnds(r) ==
    /\ connState' = [connState EXCEPT ![r] = "closed"]
    /\ sessLock' = IF sessLock = r THEN NoHolder ELSE sessLock

\* Relay thread: sess.lock(). The guard sess_lock lives until the closure
\* returns.
RelayLock(r) ==
    /\ connState[r] = "spawned"
    /\ sessLock = NoHolder
    /\ sessLock' = r
    /\ connState' = [connState EXCEPT ![r] = "locked"]
    /\ UNCHANGED <<tPc, ssh_password, ssh_key_file, backend, local_port, probe, authMethod,
                   newResult, child, childExit, listener, running, acceptPc, relayed, stopCalls,
                   registry, regPc>>
    /\ UNCHANGED NotTunnel

\* Relay thread: channel_direct_tcpip and set_nonblocking(true); either may
\* fail, and then the thread returns.
RelayOpenChannel(r) ==
    /\ connState[r] = "locked"
    /\ \/ /\ connState' = [connState EXCEPT ![r] = "relaying"]
          /\ UNCHANGED sessLock
       \/ RelayEnds(r)
    /\ UNCHANGED <<tPc, ssh_password, ssh_key_file, backend, local_port, probe, authMethod,
                   newResult, child, childExit, listener, running, acceptPc, relayed, stopCalls,
                   registry, regPc>>
    /\ UNCHANGED NotTunnel

\* chunks a relay forwards in one run
MaxChunks == 1

\* Relay thread, one turn of while active && running_inner.load(): the loop
\* is left when the flag is false, on EOF and on an I/O error; otherwise
\* what was read on one side is written to the other, or the thread sleeps
\* 1 ms.
RelayLoop(r) ==
    /\ connState[r] = "relaying"
    /\ IF ~running
       THEN RelayEnds(r) /\ UNCHANGED relayed
       ELSE \/ RelayEnds(r) /\ UNCHANGED relayed
            \/ /\ relayed[r] < MaxChunks
               /\ relayed' = [relayed EXCEPT ![r] = @ + 1]
               /\ UNCHANGED <<connState, sessLock>>
    /\ UNCHANGED <<tPc, ssh_password, ssh_key_file, backend, local_port, probe, authMethod,
                   newResult, child, childExit, listener, running, acceptPc, stopCalls, registry,
                   regPc>>
    /\ UNCHANGED NotTunnel

\* A plausible bug: stop flips the flag instead of clearing it.
stop_flips_flag ==
    /\ stopCalls' = stopCalls + 1
    /\ IF backend = "LibSsh2"
       THEN running' = ~running /\ UNCHANGED child
       ELSE child' = (IF child = "running" THEN "killed" ELSE child) /\ UNCHANGED running

\* A plausible bug: stop signals nothing.
stop_signals_nothing ==
    /\ stopCalls' = stopCalls + 1
    /\ UNCHANGED <<running, child>>

\* SshTunnel::stop: running.store(false) for LibSsh2; child.kill(), its
\* result ignored, for SystemSsh (a child that has exited stays as it is).
stop ==
    /\ stopCalls' = stopCalls + 1
    /\ IF backend = "LibSsh2"
       THEN running' = FALSE /\ UNCHANGED child
       ELSE child' = (IF child = "running" THEN "killed" ELSE child) /\ UNCHANGED running

\* Some holder of the tunnel (SshTunnel is Clone) calls stop().
StopCall ==
    /\ tPc = "created"
    /\ stopCalls < MaxStops
    /\ stop
    /\ UNCHANGED <<childExit, tPc, ssh_password, ssh_key_file, backend, local_port, probe, authMethod,
                   newResult, listener, acceptPc, connState, sessLock, relayed, registry,
                   regPc>>
    /\ UNCHANGED NotTunnel

\* The registry: get_tunnels() is the map id -> tunnel. The caller of
\* SshTunnel::new inserts the tunnel it got under its id.
RegisterTunnel(id) ==
    /\ tPc = "created"
    /\ regPc = "unregistered"
    /\ id \notin registry
    /\ registry' = registry \cup {id}
    /\ regPc' = "registered"
    /\ UNCHANGED <<tPc, ssh_password, ssh_key_file, backend, local_port, probe, authMethod,
                   newResult, child, childExit, listener, running, acceptPc, connState, sessLock,
                   relayed, stopCalls>>
    /\ UNCHANGED NotTunnel

\* stop(tunnel_id), first half: the entry's tunnel is told to stop.
StopTunnelSignal(id) ==
    /\ regPc = "registered"
    /\ id \in registry
    /\ stopCalls < MaxStops
    /\ stop
    /\ regPc' = "signalled"
    /\ UNCHANGED <<childExit, tPc, ssh_password, ssh_key_file, backend, local_port, probe, authMethod,
                   newResult, listener, acceptPc, connState, sessLock, relayed, registry>>
    /\ UNCHANGED NotTunnel

\* stop(tunnel_id), second half: the entry is removed and stop returns.
StopTunnelRemove(id) ==
    /\ regPc = "signalled"
    /\ registry' = registry \ {id}
    /\ regPc' = "returned"
    /\ UNCHANGED <<tPc, ssh_password, ssh_key_file, backend, local_port, probe, authMethod,
                   newResult, child, childExit, listener, running, acceptPc, connState, sessLock,
                   relayed, stopCalls>>
    /\ UNCHANGED NotTunnel

TunnelNext ==
    \/ NewProbe
    \/ NewDispatch
    \/ SystemSpawn
    \/ SystemProbe
    \/ ChildExits
    \/ Libssh2Bind
    \/ Libssh2Connect
    \/ Libssh2Auth
    \/ ClientConnect
    \/ AcceptLoop
    \/ \E r \in Conns : RelayLock(r) \/ RelayOpenChannel(r) \/ RelayLoop(r)
    \/ StopCall
    \/ \E id \in TunnelIds :
          RegisterTunnel(id) \/ StopTunnelSignal(id) \/ StopTunnelRemove(id)

(***************************************************************************)
(* The relay loop of one accepted connection: ssh_tunnel.rs, lines 249-292 *)
(***************************************************************************)
\* bytes each side sends in one run
MaxBytes == 2
\* the size of buf (8192 in the code)
BufSize == 2

Bytes == {0, 255}

\* the sequences over S of length at most n
RECURSIVE SeqsUpTo(_, _)
SeqsUpTo(S, n) ==
    IF n = 0 THEN {<<>>}
    ELSE LET shorter == SeqsUpTo(S, n - 1) IN
         shorter \cup {Append(q, x) : q \in {r \in shorter : Len(r) = n - 1}, x \in S}

\* the first n elements of q
Take(q, n) == SubSeq(q, 1, n)

\* No relay thread is looked at.
RelayIdle ==
    /\ rPc = "none"
    /\ buf = <<>>
    /\ active = FALSE
    /\ did_work = FALSE
    /\ running_inner = FALSE
    /\ localIn = <<>>
    /\ chanIn = <<>>
    /\ nLocal = 0
    /\ nChan = 0
    /\ wroteChan = <<>>
    /\ wroteLocal = <<>>

\* The relay thread has its channel and is about to enter the loop:
\* let mut buf = [0u8; 8192]; let mut active = true;
RelayInit ==
    /\ rPc = "while"
    /\ buf = <<>>
    /\ active = TRUE
    /\ did_work = FALSE
    /\ running_inner = TRUE
    /\ localIn \in SeqsUpTo(Bytes, MaxBytes)
    /\ chanIn \in SeqsUpTo(Bytes, MaxBytes)
    /\ nLocal = 0
    /\ nChan = 0
    /\ wroteChan = <<>>
    /\ wroteLocal = <<>>

\* active = false; break;
Break ==
    /\ active' = FALSE
    /\ rPc' = "done"

\* while active && running_inner.load(Ordering::Relaxed) { let mut did_work = false;
RelayWhile ==
    /\ rPc = "while"
    /\ IF active /\ running_inner
       THEN rPc' = "read_local" /\ did_work' = FALSE
       ELSE rPc' = "done" /\ UNCHANGED did_work
    /\ UNCHANGED <<buf, active, running_inner, localIn, chanIn, nLocal, nChan, wroteChan,
                   wroteLocal>>
    /\ UNCHANGED NotRelay

\* match local_stream.read(&mut buf): Ok(0) at the end of the stream, Ok(n)
\* with the next n bytes, WouldBlock when nothing has arrived (the stream is
\* non-blocking), any other error.
ReadLocal ==
    /\ rPc = "read_local"
    /\ \/ /\ nLocal = Len(localIn)
          /\ Break
          /\ UNCHANGED <<buf, nLocal>>
       \/ /\ \E n \in 1..BufSize :
               /\ nLocal + n <= Len(localIn)
               /\ buf' = SubSeq(localIn, nLocal + 1, nLocal + n)
               /\ nLocal' = nLocal + n
          /\ rPc' = "write_channel"
          /\ UNCHANGED active
       \/ /\ rPc' = "read_channel"
          /\ UNCHANGED <<buf, nLocal, active>>
       \/ /\ Break
          /\ UNCHANGED <<buf, nLocal>>
    /\ UNCHANGED <<did_work, running_inner, localIn, chanIn, nChan, wroteChan, wroteLocal>>
    /\ UNCHANGED NotRelay

\* A plausible bug: write instead of write_all; a short write is taken for a
\* complete one.
WriteChannelShort ==
    /\ rPc = "write_channel"
    /\ \E k \in 0..Len(buf) : wroteChan' = wroteChan \o Take(buf, k)
    /\ did_work' = TRUE
    /\ rPc' = "read_channel"
    /\ UNCHANGED <<buf, active, running_inner, localIn, chanIn, nLocal, nChan, wroteLocal>>
    /\ UNCHANGED NotRelay

\* if channel.write_all(&buf[..n]).is_err() { active = false; break; }
\* did_work = true;   write_all writes all of buf[..n], or fails after having
\* written some of its first bytes.
WriteChannel ==
    /\ rPc = "write_channel"
    /\ \/ /\ wroteChan' = wroteChan \o buf
          /\ did_work' = TRUE
          /\ rPc' = "read_channel"
          /\ UNCHANGED active
       \/ /\ \E k \in 0..(Len(buf) - 1) : wroteChan' = wroteChan \o Take(buf, k)
          /\ Break
          /\ UNCHANGED did_work
    /\ UNCHANGED <<buf, running_inner, localIn, chanIn, nLocal, nChan, wroteLocal>>
    /\ UNCHANGED NotRelay

\* match channel.read(&mut buf): Ok(0) at the end of the channel, Ok(n) with
\* the next n bytes, Err(_) => {} for the 10 ms timeout of the session
\* (sess.set_timeout(10)) and for any other error alike; the position
\* "read_channel_failed" is that arm entered with an error that is no timeout.
ReadChannel ==
    /\ rPc = "read_channel"
    /\ \/ /\ nChan = Len(chanIn)
          /\ Break
          /\ UNCHANGED <<buf, nChan>>
       \/ /\ \E n \in 1..BufSize :
               /\ nChan + n <= Len(chanIn)
               /\ buf' = SubSeq(chanIn, nChan + 1, nChan + n)
               /\ nChan' = nChan + n
          /\ rPc' = "write_local"
          /\ UNCHANGED active
       \/ /\ rPc' \in {"sleep", "read_channel_failed"}
          /\ UNCHANGED <<buf, nChan, active>>
    /\ UNCHANGED <<did_work, running_inner, localIn, chanIn, nLocal, wroteChan, wroteLocal>>
    /\ UNCHANGED NotRelay

\* if local_stream.write_all(&buf[..n]).is_err() { active = false; break; }
\* did_work = true;
WriteLocal ==
    /\ rPc = "write_local"
    /\ \/ /\ wroteLocal' = wroteLocal \o buf
          /\ did_work' = TRUE
          /\ rPc' = "sleep"
          /\ UNCHANGED active
       \/ /\ \E k \in 0..(Len(buf) - 1) : wroteLocal' = wroteLocal \o Take(buf, k)
          /\ Break
          /\ UNCHANGED did_work
    /\ UNCHANGED <<buf, running_inner, localIn, chanIn, nLocal, nChan, wroteChan>>
    /\ UNCHANGED NotRelay

\* if !did_work { thread::sleep(1 ms); }  and back to the loop test
RelaySleep ==
    /\ rPc \in {"sleep", "read_channel_failed"}
    /\ rPc' = "while"
    /\ UNCHANGED <<buf, active, did_work, running_inner, localIn, chanIn, nLocal, nChan,
                   wroteChan, wroteLocal>>
    /\ UNCHANGED NotRelay

\* stop() on the tunnel: running.store(false)
RelayStop ==
    /\ rPc \notin {"none", "done"}
    /\ running_inner
    /\ running_inner' = FALSE
    /\ UNCHANGED <<rPc, buf, active, did_work, localIn, chanIn, nLocal, nChan, wroteChan,
                   wroteLocal>>
    /\ UNCHANGED NotRelay

RelayNext ==
    \/ RelayWhile
    \/ ReadLocal
    \/ WriteChannel
    \/ ReadChannel
    \/ WriteLocal
    \/ RelaySleep
    \/ RelayStop

(***************************************************************************)
(* Specifications                                                          *)
(***************************************************************************)
Init == PoolInit /\ DriverInit /\ TunnelInit /\ QueriesInit /\ KeyIdle /\ RelayIdle /\ SqlIdle /\ FetchIdle

SpecPool == Init /\ [][PoolNext]_vars

SpecTargets == Init /\ [][TargetNext]_vars

SpecDriver == Init /\ [][DriverNext]_vars

SpecArgs == Init /\ [][ArgsNext]_vars

SpecTunnel == Init /\ [][TunnelNext]_vars

SpecQueries == Init /\ [][QueriesNext]_vars

\* two calls to compare; the rest of the program is at rest
InitKey == PoolInit /\ DriverInit /\ TunnelInit /\ QueriesInit /\ KeyInit /\ RelayIdle /\ SqlIdle /\ FetchIdle

\* one relay thread at the top of its loop; the rest of the program is at rest
InitRelay == PoolInit /\ DriverInit /\ TunnelInit /\ QueriesInit /\ KeyIdle /\ RelayInit /\ SqlIdle /\ FetchIdle

SpecRelay == InitRelay /\ [][RelayNext]_vars

SpecKey == InitKey /\ [][KeyNext]_vars

\* two calls whose statements are compared; the rest of the program is at rest
InitSql == PoolInit /\ DriverInit /\ TunnelInit /\ QueriesInit /\ KeyIdle /\ RelayIdle /\ SqlInit /\ FetchIdle

SpecSql == InitSql /\ [][SqlNext]_vars

\* an operation with the engine's answer; the rest of the program is at rest
InitFetch ==
    PoolInit /\ DriverInit /\ TunnelInit /\ QueriesInit /\ KeyIdle /\ RelayIdle /\ SqlIdle /\ FetchInit

SpecFetch == InitFetch /\ [][FetchNext]_vars

(***************************************************************************)
(* Claims about the pool manager, checked under SpecPool.                  *)
(***************************************************************************)
\* the pools dialled for key k of backend b
PoolsDialledFor(b, k) ==
    {i \in DOMAIN dialled : dialled[i].backend = b /\ dialled[i].key = k}

\* C1: as long as no entry has been removed from a map (the map started
\* empty), concurrent get_*_pool calls with identical params dial once: at
\* most one pool is ever created for a key, and every call that returned
\* a pool for the key returned the same one.
C1_ConcurrentObtainDialsOnce ==
    closed = {} =>
        /\ \A b \in Backends, k \in Keys : Cardinality(PoolsDialledFor(b, k)) <= 1
        /\ \A c1, c2 \in Callers :
             (/\ result[c1].tag = "Ok"
              /\ result[c2].tag = "Ok"
              /\ dialled[result[c1].pool].backend = dialled[result[c2].pool].backend
              /\ dialled[result[c1].pool].key = dialled[result[c2].pool].key)
             => result[c1].pool = result[c2].pool

\* C2: get_*_pool never overwrites an entry: an entry of a map changes only
\* by being removed, and the pool it held is closed by that removal.
C2_ObtainNeverReplaces ==
    [][\A b \in Backends, k \in Keys :
         pools[b][k] # NoPool =>
            \/ pools'[b][k] = pools[b][k]
            \/ pools'[b][k] = NoPool /\ pools[b][k] \in closed']_vars

\* C9: a get_*_pool call whose dial fails returns an error, and none of its
\* steps (the lookup that missed, the failed dial) changes any backend's map.
C9_DialFailureLeavesMaps ==
    [][\A c \in Callers :
         /\ (pc[c] = "idle" /\ pc'[c] = "dial") => pools' = pools
         /\ (pc[c] = "dial" /\ pc'[c] = "idle") =>
               (result'[c] = Err /\ pools' = pools)
         /\ (result'[c] = Err /\ result[c] # Err) => pools' = pools]_vars

\* C9 witness: a call returned an error while another key holds a pool.
C9_Witness ==
    \E c \in Callers :
        /\ result[c] = Err
        /\ \E b \in Backends, k \in Keys : pools[b][k] # NoPool

\* C10: a closed pool is never in a map and never held by a running call, so
\* a lookup after close(params) cannot hit the closed pool; a call whose
\* lookup misses goes on to dial, the pool it dials did not exist before,
\* and the pool a call returns is not a closed one.
C10_ObtainAfterCloseDialsAgain ==
    /\ [](\A b \in Backends, k \in Keys : pools[b][k] \notin closed)
    /\ [](\A c \in Callers : callPool[c] \notin closed)
    /\ [][\A c \in Callers :
            /\ (pc[c] = "idle" /\ afterClose'[c]) => pc'[c] = "dial"
            /\ (pc[c] = "dial" /\ pc'[c] = "store") =>
                  /\ callPool'[c] \notin DOMAIN dialled
                  /\ callPool'[c] \in DOMAIN dialled'
                  /\ dialled'[callPool'[c]].key = build_connection_key(callParams[c])
            /\ (pc[c] = "store" /\ pc'[c] = "idle") =>
                  /\ result'[c] = Ok(callPool[c])
                  /\ pools'[callParams[c].driver][build_connection_key(callParams[c])]
                        = callPool[c]
            /\ (result'[c].tag = "Ok" /\ (result'[c] # result[c] \/ pc'[c] # pc[c])) =>
                  result'[c].pool \notin closed]_vars

\* C10 witness: close_pool removed and closed the key's pool, then a call
\* for the same key missed and has dialled a new pool.
C10_Witness ==
    \E c \in Callers :
        /\ pc[c] = "store"
        /\ afterClose[c]
        /\ callPool[c] \notin closed
        /\ \E q \in closed :
              /\ dialled[q].key = build_connection_key(callParams[c])
              /\ q # callPool[c]


(***************************************************************************)
(* Claims about the drivers, checked under SpecDriver.                     *)
(***************************************************************************)
\* C3: driver operations take their connection from the pool manager and
\* never dial on their own: whatever operations have run against the target
\* of a backend, at most one dial was made for it and no more connections
\* are open than the backend's pool bound.
C3_DriversDialAtMostOnce ==
    \A b \in DriverBackends :
        /\ drvDials[b] <= 1
        /\ Cardinality(DriverConnections(b)) <= max_connections(b)

(***************************************************************************)
(* Claims about the SSH tunnel, checked under SpecTunnel.                  *)
(***************************************************************************)
\* SshTunnel::new has chosen a backend
BackendChosen == backend # "none"

C5_RelaysIndependent ==
    \A r, q \in Conns :
        (r # q /\ connState[r] = "spawned" /\ connState[q] = "relaying")
            => sessLock = NoHolder

\* stop() has been called on a libssh2 tunnel
StoppedLibssh2 == backend = "LibSsh2" /\ stopCalls >= 1

\* C6: after stop() on a libssh2 tunnel a new connection attempt to the
\* local port is refused: it is not queued on the listener and not accepted.
C6_RefusedAfterStop ==
    [][\A r \in Conns :
          (StoppedLibssh2 /\ connState[r] = "none" /\ connState'[r] # "none")
              => connState'[r] = "refused"]_vars

\* the tunnel's backend has been told to shut down
ShutdownSignalled ==
    /\ backend = "LibSsh2" => ~running
    /\ backend = "SystemSsh" => child \in {"killed", "exited"}

\* C7: stop() is idempotent for both backends: once it has been called the
\* flag is false or the child is not running, and a further call leaves
\* the flag and the child as they are.
C7_StopIdempotent ==
    /\ [](stopCalls >= 1 => ShutdownSignalled)
    /\ [][(stopCalls >= 1 /\ stopCalls' > stopCalls)
             => (running' = running /\ child' = child)]_vars

\* C7 witness: stop() has been called twice on a tunnel, of either backend.
C7_Witness ==
    /\ stopCalls >= 2
    /\ \/ backend = "LibSsh2" /\ ~running
       \/ backend = "SystemSsh" /\ child = "killed"

\* C8: stop(tunnel_id) removes the entry from the registry, and only after
\* the shutdown signal: an entry leaves the registry only when the flag is
\* cleared or the child killed, and when stop(tunnel_id) has returned the
\* registry has no entry for the id.
C8_StopRemovesAfterSignal ==
    /\ [](regPc = "returned" => (registry = {} /\ ShutdownSignalled))
    /\ [][\A id \in TunnelIds :
             (id \in registry /\ id \notin registry') => ShutdownSignalled]_vars

\* C8 witness: stop(tunnel_id) has returned for a registered tunnel.
C8_Witness ==
    /\ regPc = "returned"
    /\ stopCalls >= 1
    /\ \A id \in TunnelIds : id \notin registry

(***************************************************************************)
(* Claims about close_pool and close_all_pools.                            *)
(***************************************************************************)
\* C11: close_pool(params) removes and closes only the pool stored under
\* the params' key in the params' backend map, and does nothing when there
\* is none; every other key, the other backends' maps, and what the callers
\* hold and were returned are unchanged.
C11_ClosePoolOnlyItsKey ==
    [][\A params \in TargetParams :
          close_pool(params) =>
              LET key == build_connection_key(params)
                  b == params.driver IN
              /\ \A b2 \in Backends, k2 \in Keys :
                    (b2 # b \/ k2 # key) => pools'[b2][k2] = pools[b2][k2]
              /\ pools'[b][key] = NoPool
              /\ closed' = IF pools[b][key] # NoPool
                           THEN closed \cup {pools[b][key]}
                           ELSE closed
              /\ result' = result
              /\ callPool' = callPool]_vars

\* C11 witness: a pool of one mysql target has been removed and closed while
\* the pool of the other mysql target is still in the map.
C11_Witness ==
    \E q \in closed, k \in Keys :
        /\ dialled[q].backend = "mysql"
        /\ pools["mysql"][dialled[q].key] = NoPool
        /\ k # dialled[q].key
        /\ pools["mysql"][k] # NoPool
        /\ pools["mysql"][k] \notin closed

\* the map whose block close_all_pools runs next
DrainTurn ==
    IF closePc = "idle" THEN "mysql"
    ELSE IF closePc = "drain_postgres" THEN "postgres" ELSE "sqlite"

MapsEmpty(m) == \A b \in Backends, k \in Keys : m[b][k] = NoPool

\* C12 (as the code has it): close_all_pools removes and closes every pool
\* of the three maps, one map after the other: each block empties its map,
\* closes exactly the pools it held and leaves the other maps alone; all
\* maps are empty when it returns provided no get_*_pool call stored a pool
\* while it ran; and a close_all_pools on empty maps changes nothing.
C12_CloseAllDrainsInTurn ==
    [][close_all_pools =>
          /\ \A k \in Keys : pools'[DrainTurn][k] = NoPool
          /\ closed' = closed \cup
                {pools[DrainTurn][k] : k \in {j \in Keys : pools[DrainTurn][j] # NoPool}}
          /\ \A b \in Backends \ {DrainTurn} : pools'[b] = pools[b]
          /\ (closePc' = "idle" /\ ~storedInClose) => MapsEmpty(pools')
          /\ MapsEmpty(pools) => (pools' = pools /\ closed' = closed)]_vars

\* C12 (as stated): all maps are empty when close_all_pools returns.
C12_AllMapsEmptyOnReturn ==
    [][(close_all_pools /\ closePc' = "idle") => MapsEmpty(pools')]_vars

\* C12 witness: close_all_pools is before its last block, undisturbed, and
\* has drained and closed pools of the mysql map, with a pool of the sqlite
\* map still to drain.
C12_Witness ==
    /\ closePc = "drain_sqlite"
    /\ ~storedInClose
    /\ \E q \in closed : dialled[q].backend = "mysql"
    /\ \A k \in Keys : pools["mysql"][k] = NoPool
    /\ \E k \in Keys : pools["sqlite"][k] # NoPool

(***************************************************************************)
(* Claims about the cache key, checked under SpecKey.                      *)
(***************************************************************************)
\* the target the pool of the params connects to: backend, host, port and
\* database, with the defaults the URL is built with
IdentityTuple(params) ==
    <<params.driver, unwrap_or(params.host, "localhost"),
      unwrap_or(params.port, default_port(params.driver)), params.database>>

\* C13: two ConnectionParams are served by the same pool (have the same
\* cache key) if and only if they agree on (backend, host, port, database).
C13_SameKeyIffSameIdentity ==
    keyOut # None =>
        (keyOut[1].keys[1] = keyOut[1].keys[2]
            <=> IdentityTuple(keyIn[1]) = IdentityTuple(keyIn[2]))

(***************************************************************************)
(* Claims about the relay loop, checked under SpecRelay.                   *)
(***************************************************************************)
\* p is a prefix of q
IsPrefix(p, q) == Len(p) <= Len(q) /\ p = Take(q, Len(p))

\* C14: at every moment the bytes written to the channel are a prefix of
\* the bytes read from the local stream, and the bytes written to the local
\* stream a prefix of the bytes read from the channel, in the same order;
\* and while the relay runs, whenever it is about to read, everything read
\* so far has been written: no byte is lost, duplicated or reordered.
C14_RelayByteExact ==
    /\ IsPrefix(wroteChan, Take(localIn, nLocal))
    /\ IsPrefix(wroteLocal, Take(chanIn, nChan))
    /\ rPc \in {"while", "read_local", "read_channel", "sleep", "read_channel_failed"} =>
          wroteChan = Take(localIn, nLocal)
    /\ rPc \in {"while", "read_local", "write_channel", "read_channel", "sleep",
                "read_channel_failed"} =>
          wroteLocal = Take(chanIn, nChan)

\* C14 witness: the relay is running and has forwarded two bytes in each
\* direction, in more than one turn of the loop.
C14_Witness ==
    /\ rPc = "while"
    /\ active
    /\ Len(wroteChan) = 2
    /\ Len(wroteLocal) = 2
    /\ Len(buf) = 1

(***************************************************************************)
(* Claims about the creation of a tunnel, checked under SpecTunnel.        *)
(***************************************************************************)
\* a key file is given: Some(path) with a path that is not blank
KeySupplied == ssh_key_file # None /\ ~is_blank(ssh_key_file[1])

\* the errors of the authentication step of new_libssh2
AuthErrors ==
    {"SSH key auth failed", "SSH password auth failed", "SSH agent auth failed",
     "SSH authentication failed", "No SSH credentials provided"}

C16_ProbeReleasedBeforeBackend ==
    /\ probe # "unbound" => (local_port # 0 /\ local_port \in EphemeralPorts)
    /\ ~(probe = "bound" /\ listener = "bound")
    /\ ~(probe = "bound" /\ child # "none")
    /\ BackendChosen => probe = "released"
    /\ (listener # "unbound" \/ child # "none") => local_port # 0

\* C16 witness: the libssh2 backend has bound the probed port and the
\* probe's listener is released.
C16_Witness ==
    /\ listener = "bound"
    /\ probe = "released"
    /\ local_port = 65535

C18_FailedNewLeavesNothing ==
    tPc = "failed" =>
        /\ probe # "bound"
        /\ listener # "bound"
        /\ acceptPc = "none"
        /\ ~running
        /\ \A r \in Conns : connState[r] \in {"none", "closed", "refused"}
        /\ sessLock = NoHolder
        /\ child # "running"

\* C18 witness: new_libssh2 failed in the authentication step after it had
\* bound the listener and a client had connected to it.
C18_Witness ==
    /\ tPc = "failed"
    /\ newResult = "SSH password auth failed"
    /\ listener = "released"
    /\ \E r \in Conns : connState[r] = "closed"

(***************************************************************************)
(* Claims about the arguments of driver operations, checked under SpecArgs *)
(***************************************************************************)
\* the call of c is insert_record with an empty row mapping
EmptyInsert(c) == drvCall[c].op = "insert_record" /\ DOMAIN drvCall[c].data = {}

\* C19: insert_record with an empty row mapping fails with "No data to
\* insert" and makes no network call: it never holds a connection, and
\* when it has returned the error is that one and no statement was sent.
C19_EmptyInsertNoNetwork ==
    \A c \in Callers :
        EmptyInsert(c) =>
            /\ drvPc[c] = "idle"
            /\ drvResult[c] = DrvErr("No data to insert", FALSE)

\* the call of c is delete_record or update_record with a primary key that
\* is neither a Number nor a String
BadPk(c) ==
    /\ drvCall[c].op \in {"delete_record", "update_record"}
    /\ drvCall[c].pk_val \in ValueKinds \ {"Number", "String"}

UnsupportedValueType ==
    {"Unsupported PK type", "Unsupported Value type", "Unsupported value type"}

\* C20 (as the code has it): delete_record and update_record with a primary
\* key that is no Number and no String never return Ok and send no
\* statement; they connect first, so they fail with the connect error when
\* the dial fails and with an unsupported-type error once connected.
C20_BadPkFailsWithoutStatement ==
    /\ [](\A c \in Callers :
             BadPk(c) =>
                 /\ drvResult[c].tag # "Ok"
                 /\ ~drvResult[c].executed
                 /\ drvResult[c].tag = "Err" =>
                       drvResult[c].error \in UnsupportedValueType \cup {ConnectError})
    /\ [][\A c \in Callers :
             (BadPk(c) /\ drvPc[c] = "connected" /\ drvPc'[c] = "idle") =>
                 (drvResult'[c].tag = "Err"
                     /\ drvResult'[c].error \in UnsupportedValueType)]_vars

\* C20 (as stated): such a call fails with an unsupported-type error.
C20_BadPkFailsUnsupported ==
    \A c \in Callers :
        (BadPk(c) /\ drvResult[c].tag # "None") =>
            /\ drvResult[c].tag = "Err"
            /\ drvResult[c].error \in UnsupportedValueType
            /\ ~drvResult[c].executed

\* C20 witness: update_record on the sqlite driver with a Bool primary key
\* has returned "Unsupported PK type".
C20_Witness ==
    \E c \in Callers :
        /\ drvCall[c].backend = "sqlite"
        /\ drvCall[c].op = "update_record"
        /\ drvCall[c].pk_val = "Bool"
        /\ drvPc[c] = "idle"
        /\ drvResult[c] = DrvErr("Unsupported PK type", FALSE)

(***************************************************************************)
(* Claims about the statements built, checked under SpecSql                *)
(***************************************************************************)
\* the two calls name the same table and the same columns
SameIdentifiers ==
    LET a == sqlIn.calls[1] b == sqlIn.calls[2] IN
    /\ a.op = b.op
    /\ a.table = b.table
    /\ a.args.pk_col = b.args.pk_col
    /\ a.args.col_name = b.args.col_name
    /\ DOMAIN a.args.data = DOMAIN b.args.data

\* the two calls have Null in the same places
SameNullPositions ==
    LET a == sqlIn.calls[1].args b == sqlIn.calls[2].args IN
    /\ (a.pk_val.kind = "Null") = (b.pk_val.kind = "Null")
    /\ (a.new_val.kind = "Null") = (b.new_val.kind = "Null")
    /\ \A col \in DOMAIN a.data \cap DOMAIN b.data :
          (a.data[col].kind = "Null") = (b.data[col].kind = "Null")

\* both calls built a statement
BothBuilt == sqlOut # None /\ sqlOut[1][1].error = "" /\ sqlOut[1][2].error = ""

\* C21 (as the code has it): two calls that built a statement, with the same
\* identifiers, Null in the same places and, for insert_record, the same
\* iteration order of the row mapping, built the same SQL text, whatever
\* their Bool, Number and String values are.
C21_SqlTextIgnoresValues ==
    (BothBuilt /\ SameIdentifiers /\ SameNullPositions
        /\ sqlIn.calls[1].args.order = sqlIn.calls[2].args.order)
        => sqlOut[1][1].sql = sqlOut[1][2].sql

\* C21 (as stated): the same identifiers and the same Null positions give
\* the same SQL text.
C21_SqlTextFromNamesAndNulls ==
    (BothBuilt /\ SameIdentifiers /\ SameNullPositions)
        => sqlOut[1][1].sql = sqlOut[1][2].sql

\* C21 witness: two insert_record calls on two columns, a Number and a
\* String in one, a String and a Number in the other, built one text with
\* two placeholders and different parameters.
C21_Witness ==
    /\ BothBuilt
    /\ sqlIn.calls[1].op = "insert_record"
    /\ SameIdentifiers
    /\ DOMAIN sqlIn.calls[1].args.data = Columns
    /\ sqlIn.calls[1].args.data["id"].kind = "Number"
    /\ sqlIn.calls[2].args.data["id"].kind = "String"
    /\ sqlIn.calls[1].args.data["name"].kind = "String"
    /\ sqlIn.calls[2].args.data["name"].kind = "Number"
    /\ sqlOut[1][1].sql = sqlOut[1][2].sql
    /\ sqlOut[1][1].binds # sqlOut[1][2].binds
    /\ Len(sqlOut[1][1].binds) = 2

\* the parameters call i bound for its Number arguments: a Number primary
\* key is the last parameter of delete_record and update_record
NumberBinds(i) ==
    LET call == sqlIn.calls[i] built == sqlOut[1][i] IN
    IF built.error # "" THEN {}
    ELSE IF call.op \in {"delete_record", "update_record"}
    THEN (IF call.args.pk_val.kind = "Number"
          THEN {<<call.args.pk_val, built.binds[Len(built.binds)]>>} ELSE {})
         \cup (IF call.args.new_val.kind = "Number"
               THEN {<<call.args.new_val, built.binds[1]>>} ELSE {})
    ELSE IF \A col \in DOMAIN call.args.data : call.args.data[col].kind = "Number"
    THEN {<<call.args.data[call.args.order[k]], built.binds[k]>> : k \in 1..Len(built.binds)}
    ELSE {}

\* C26: a Number argument is bound as a 64-bit integer when it is an integer
\* that fits one, and as a floating-point value otherwise; never as any
\* other type.
C26_NumberBoundAsIntOrFloat ==
    sqlOut # None =>
        \A i \in 1..2 : \A nb \in NumberBinds(i) :
            /\ nb[2].type \in {"i64", "f64"}
            /\ nb[2].type = "i64" <=> is_i64(nb[1])

(***************************************************************************)
(* Claims about decoding and introspection, checked under SpecFetch        *)
(***************************************************************************)
\* the order in which each engine's map_rows is said to try the extractions
ServerOrder ==
    <<"i64", "i32", "String", "bool", "NaiveDateTime", "NaiveDate", "NaiveTime", "f64">>
EmbeddedOrder == <<"i64", "f64", "String", "bool">>
ExtractionOrder(engine) == IF engine = "mysql" THEN ServerOrder ELSE EmbeddedOrder

\* the places of the order whose extraction succeeds for the cell
Successes(order, cell) == {k \in 1..Len(order) : order[k] \in cell.succeeds}

\* the first extraction of the order that succeeds wins; Null when none does
FirstSuccess(order, cell) ==
    IF Successes(order, cell) = {} THEN JsonNull
    ELSE LET k == CHOOSE m \in Successes(order, cell) :
                      \A n \in Successes(order, cell) : m <= n
         IN extracted(order[k], cell)

\* execute_query has returned a result set
Decoded == returned # None /\ fetched.op = "execute_query"

\* C22: every cell of the result is the value of the first extraction, in
\* the engine's order, that succeeds for it (a double that is NaN or
\* infinite has no JSON number and is given as Null), and Null when no
\* extraction succeeds.
C22_FirstExtractionWins ==
    Decoded =>
        \A r \in 1..Len(fetched.rows) : \A i \in 1..Len(fetched.rows[r].cells) :
            returned[1].rows[r][i] =
                FirstSuccess(ExtractionOrder(fetched.engine), fetched.rows[r].cells[i])

\* C22 witness: an embedded-engine cell that extracts as double, as text and
\* as bool but not as i64 came out as a Number.
C22_Witness ==
    /\ Decoded
    /\ fetched.engine = "sqlite"
    /\ Len(fetched.rows) = 1
    /\ fetched.rows[1].cells[1].succeeds = {"f64", "String", "bool"}
    /\ fetched.rows[1].cells[1].finite
    /\ returned[1].rows[1][1].kind = "Number"

\* C23: execute_query returns the column names the engine reported, in that
\* order, the rows in the engine's order, one value per column in each row;
\* a row with cells [int, text, float, null] decodes to
\* [Number, String, Number, Null].
C23_ColumnsAndRowsInEngineOrder ==
    Decoded =>
        /\ returned[1].columns = fetched.columns
        /\ Len(returned[1].rows) = Len(fetched.rows)
        /\ \A r \in 1..Len(fetched.rows) :
              /\ Len(returned[1].rows[r]) = Len(fetched.columns)
              /\ (fetched.columns = <<"id", "name", "price", "note">>
                     /\ fetched.rows[r].cells[4] = NullCell
                     /\ \A i \in 1..3 : fetched.rows[r].cells[i] # NullCell)
                  => [i \in 1..4 |-> returned[1].rows[r][i].kind]
                         = <<"Number", "String", "Number", "Null">>

\* get_columns has returned
Introspected == returned # None /\ fetched.op = "get_columns"

\* the table (id INTEGER PRIMARY KEY, name TEXT NOT NULL)
ExampleTable ==
    <<[name |-> "id", type |-> <<"I", "N", "T", "E", "G", "E", "R">>,
       not_null |-> FALSE, primary_key |-> TRUE],
      [name |-> "name", type |-> <<"T", "E", "X", "T">>,
       not_null |-> TRUE, primary_key |-> FALSE]>>

\* C24: is_pk is (pk flag nonzero), is_nullable the negation of the notnull
\* flag, is_auto_increment (is_pk and a declared type of integer affinity);
\* and the table (id INTEGER PRIMARY KEY, name TEXT NOT NULL) gives
\* id{is_pk, not nullable, auto-increment}, name{not pk, not nullable, not
\* auto-increment}.
C24_SqliteColumnFlags ==
    Introspected =>
        /\ \A i \in 1..Len(fetched.info) :
              LET r == fetched.info[i] tc == returned[1].table_columns[i] IN
              /\ tc.is_pk = (r.pk # 0)
              /\ tc.is_nullable = ~(r.notnull # 0)
              /\ tc.is_auto_increment =
                    (tc.is_pk /\ contains(to_uppercase(r.type), <<"I", "N", "T">>))
        /\ fetched.info = table_info(ExampleTable) =>
              /\ Len(returned[1].table_columns) = 2
              /\ LET id == returned[1].table_columns[1]
                     name == returned[1].table_columns[2] IN
                 /\ id.is_pk /\ ~id.is_nullable /\ id.is_auto_increment
                 /\ ~name.is_pk /\ ~name.is_nullable /\ ~name.is_auto_increment

\* C25: the QueryResult of a mutating statement carries the number of rows
\* the engine reported as affected.
C25_AffectedRowsReported ==
    Decoded => returned[1].affected_rows = fetched.affected

(***************************************************************************)
(* Claims about shutdown and the end of a relay                            *)
(***************************************************************************)
\* C27 (SpecRelay): the flag does not end a relay in flight; the relay
\* leaves its loop only by a break, on EOF or on an I/O error of one of its
\* sides, which sets active to false.
C27_RelayOutlivesStop == rPc = "done" => ~active

\* C28 (SpecRelay): an I/O error on either side ends the relay at once; for
\* the forwarding channel: when channel.read has failed, the next step of
\* the relay thread leaves the loop.
C28_ChannelErrorEndsRelay ==
    [][(rPc = "read_channel_failed" /\ rPc' # rPc) => rPc' = "done"]_vars

\* C29 (SpecTunnel): in the embedded backend the listener is bound only
\* when the session is authenticated, which it is when creation has got
\* past the authentication and returned the tunnel.
C29_ListenerBoundAfterAuth ==
    (backend = "LibSsh2" /\ listener = "bound") => tPc = "created"

\* C30 (SpecTunnel): once stop() has cleared the flag of a created tunnel,
\* no step makes an accepted connection a relay thread, and the step of the accept loop that takes a
\* connection ends the loop and closes what it took.
C30_NoRelayAfterStop ==
    [][\A r \in Conns :
          (backend = "LibSsh2" /\ tPc = "created" /\ stopCalls > 0 /\ ~running
              /\ connState[r] = "pending" /\ connState'[r] # "pending")
              => /\ connState'[r] = "closed"
                 /\ acceptPc' = "exited"
                 /\ sessLock' = sessLock]_vars

\* C30 witness: one connection was relayed before stop(); the one accepted
\* after it made the loop exit and was closed without having relayed.
C30_Witness ==
    /\ backend = "LibSsh2"
    /\ ~running
    /\ stopCalls > 0
    /\ acceptPc = "exited"
    /\ \E r \in Conns, q \in Conns :
          /\ relayed[q] > 0
          /\ connState[r] = "closed"
          /\ relayed[r] = 0
          /\ r > q

(***************************************************************************)
(* Claim about the INSERT of insert_record, checked under SpecSql          *)
(***************************************************************************)
\* the value slot of a value: the literal NULL, or a placeholder
Slot(val) == IF val.kind = "Null" THEN "NULL" ELSE "?"

\* the parameter a value of supported kind is bound as; none for Null
SlotBinds(val) ==
    IF val.kind = "Number" THEN <<bind_number(val)>>
    ELSE IF val.kind = "String" THEN <<Bound("String", val.text)>>
    ELSE IF val.kind = "Bool" THEN <<Bound("bool", val.text)>>
    ELSE <<>>

\* the INSERT over the columns in the given order (one or two of them), the
\* i-th slot taken from the value of the i-th column
AlignedInsert(b, table, data, order) ==
    IF Len(order) = 1
    THEN Statement("INSERT INTO " \o quote(b, table) \o " (" \o quote(b, order[1])
                       \o ") VALUES (" \o Slot(data[order[1]]) \o ")",
                   SlotBinds(data[order[1]]))
    ELSE Statement("INSERT INTO " \o quote(b, table) \o " (" \o quote(b, order[1]) \o ", "
                       \o quote(b, order[2]) \o ") VALUES (" \o Slot(data[order[1]]) \o ", "
                       \o Slot(data[order[2]]) \o ")",
                   SlotBinds(data[order[1]]) \o SlotBinds(data[order[2]]))

\* the kinds insert_record has a match arm for
SupportedKinds == {"Number", "String", "Bool", "Null"}

\* C31: the INSERT has as many value slots as columns, the i-th slot holding
\* the value the row mapping has for the i-th column of the column list,
\* whatever the iteration order of the mapping; a value of unsupported kind
\* makes the call return an error with no statement built.
C31_InsertSlotsFollowColumns ==
    sqlOut # None =>
        \A i \in 1..2 :
            LET call == sqlIn.calls[i] built == sqlOut[1][i] IN
            (call.op = "insert_record" /\ call.args.order # <<>>) =>
                IF \A col \in DOMAIN call.args.data :
                       call.args.data[col].kind \in SupportedKinds
                THEN built = AlignedInsert(sqlIn.backend, call.table, call.args.data,
                                           call.args.order)
                ELSE built = SqlErr("Unsupported value type")

\* C31 witness: the mapping yielded "name" before "id"; the INSERT lists
\* name, id, has NULL in the first slot for the Null of name and binds the
\* Number of id to the only placeholder. The other call had a value of
\* unsupported kind and returned the error.
C31_Witness ==
    /\ sqlOut # None
    /\ sqlIn.backend = "sqlite"
    /\ sqlIn.calls[1].op = "insert_record"
    /\ sqlIn.calls[1].args.order = <<"name", "id">>
    /\ sqlIn.calls[1].args.data["name"].kind = "Null"
    /\ sqlIn.calls[1].args.data["id"].text = "7"
    /\ sqlOut[1][1].sql = "INSERT INTO \"t\" (\"name\", \"id\") VALUES (NULL, ?)"
    /\ sqlOut[1][1].binds = <<Bound("i64", "7")>>
    /\ sqlIn.calls[2].args.order # <<>>
    /\ sqlOut[1][2] = SqlErr("Unsupported value type")

(***************************************************************************)
(* Claim about the saved queries, checked under SpecQueries                *)
(***************************************************************************)
\* the ids meta.json lists
Listed == {meta[i].id : i \in 1..Len(meta)}

\* C32: when every command has returned and all of them returned Ok,
\* meta.json lists exactly the queries that were saved and not deleted.
C32_MetaListsSavedNotDeleted ==
    ((\A c \in Callers : qPc[c] = "idle") /\ ~qLog.failed)
        => Listed = qLog.saved \ qLog.deleted

====
